---- MODULE Spec2Model ----
(***************************************************************************)
(* A model of the orchestration kernel of claude_orchestrator:             *)
(*   core/dag.py       dependency validation and wave scheduling           *)
(*   core/conflict.py  file and resource conflict detection                *)
(*   core/state.py     the orchestration state and its update functions    *)
(*   worktree/isolation.py, verification/boundaries.py,                    *)
(*   core/environment.py, utils/git.py   the verification pipeline         *)
(*                                                                         *)
(* Task ids are modelled as the naturals 1..n (sorted() on ids is the      *)
(* ascending order), file paths and hashes as strings, a resource          *)
(* identifier "kind:value" as the pair <<kind, value>>.                    *)
(***************************************************************************)
EXTENDS Integers, Sequences, FiniteSets, TLC

VARIABLES
    tasks,      \* the plan handed to the DAG engine / conflict analyzer: list[TaskSpec]
    validation, \* outcome of validate_dag(tasks)
    waves,      \* outcome of topological_sort(tasks)
    conflicts   \* outcome of detect_all_conflicts(tasks)

VARIABLES
    state,      \* the OrchestrationState the state store functions act on
    retries     \* history: per task, how often it went from failed back to pending/executing

VARIABLES
    worktree,   \* the git worktree of the task under verification
    verdict     \* the last verification call: its arguments and what it returned

VARIABLES
    state_file, \* the state file on disk
    procs,      \* the processes that load, update and save the state file
    observed,   \* what the last load of a concurrent reader returned
    repo        \* the main repository the task branches are merged into

VARIABLES
    manager,    \* the ContractManager: the renegotiations it tracked
    machine,    \* a TaskStateMachine: its current state and its history
    sessions,   \* the tmux sessions alive on the host
    hot_file    \* the text of the hot file the integrator works on, as lines

planVars == <<tasks, validation, waves, conflicts>>
storeVars == <<state, retries>>
verifyVars == <<worktree, verdict>>
diskVars == <<state_file, procs, observed, repo>>
objVars == <<manager, machine, sessions, hot_file>>
vars == <<tasks, validation, waves, conflicts, state, retries, worktree, verdict,
          state_file, procs, observed, repo, manager, machine, sessions, hot_file>>

(***************************************************************************)
(* Bounds of the model.                                                    *)
(***************************************************************************)
PlanTasks == 2         \* tasks in a plan that is scored or validated from the command line
FixTasks == 3          \* tasks in a plan whose conflicts get a suggested fix
RunnerChecks == 4      \* verification checks of a task given to the command runner
RenegotiationLimits == 3  \* the largest max_renegotiations a ContractManager is built with
MaxWrites == 2 
SessionTasks == 2 
MaxHistory == 5 
SchedTasks == 3 
SchedRetries == 1 
MaxTimeout == 3 
MaxPoll == 2 
CaptureTicks == 1 
MaxClock == 12 
MaxTasks == 3          \* tasks in a plan given to the DAG engine
MaxDeps == 2           \* entries of one depends_on list (duplicates allowed)
ConflictTasks == 4     \* tasks in a plan given to the conflict analyzer
ConflictDeps == 2      \* entries of one depends_on list there (no duplicates)
StoreTasks == 2        \* task ids the state store is called with
RetryCap == 4          \* retries of one task the history counts up to

(***************************************************************************)
(* Generic helpers.                                                        *)
(***************************************************************************)
Range(s) == {s[i] : i \in DOMAIN s}

SeqsUpTo(S, n) == UNION {[1..k -> S] : k \in 0..n}

RECURSIVE SortedSeq(_)
\* sorted(S): the elements of a set of ids in ascending order
SortedSeq(S) ==
    IF S = {} THEN <<>>
    ELSE LET m == CHOOSE x \in S : \A y \in S : x <= y
         IN  <<m>> \o SortedSeq(S \ {m})

RECURSIVE Reverse(_)
Reverse(s) == IF s = <<>> THEN <<>> ELSE Append(Reverse(Tail(s)), Head(s))

\* dict.get(key, default) on a dict modelled as a function
DictGet(d, k, default) == IF k \in DOMAIN d THEN d[k] ELSE default

\* the outcome variables before the function they record has been called
NotRun == [status |-> "not_run", waves |-> <<>>]
NoConflicts == [status |-> "not_run", list |-> <<>>]
NoWorktree == [exists |-> FALSE]
NoVerdict == [op |-> "none"]
VerifyIdle == worktree = NoWorktree /\ verdict = NoVerdict
NoFile == [exists |-> FALSE]
NoRepo == [exists |-> FALSE]
DiskIdle == state_file = NoFile /\ procs = <<>> /\ observed = [kind |-> "not_read"] /\ repo = NoRepo
NoObject == [exists |-> FALSE]
ObjIdle == manager = NoObject /\ machine = NoObject /\ sessions = {} /\ hot_file = <<>>

(***************************************************************************)
(* schemas/tasks.py: TaskSpec (the fields the kernel reads).               *)
(***************************************************************************)
TaskSpec(id, depends_on, files_write, files_append, resources_write, patch_intents) ==
    [id |-> id, depends_on |-> depends_on, files_write |-> files_write,
     files_append |-> files_append, resources_write |-> resources_write,
     patch_intents |-> patch_intents]

TaskIdsOf(ts) == {ts[i].id : i \in DOMAIN ts}

\* task_map = {t.id: t for t in tasks}: the last task carrying the id wins
TaskById(ts, id) ==
    ts[CHOOSE i \in DOMAIN ts :
          ts[i].id = id /\ \A j \in DOMAIN ts : j > i => ts[j].id # id]

(***************************************************************************)
(* core/dag.py                                                             *)
(***************************************************************************)
WHITE == 0
GRAY == 1
BLACK == 2
NoParent == 0      \* parent[node_id] = None

\* parse_task_dag: task_id -> TaskNode(depends_on = set(task.depends_on), dependents)
parse_task_dag(ts) ==
    [id \in TaskIdsOf(ts) |->
        [task_id    |-> id,
         depends_on |-> Range(TaskById(ts, id).depends_on),
         dependents |-> {d \in TaskIdsOf(ts) : id \in Range(TaskById(ts, d).depends_on)}]]

RECURSIVE cycle_walk(_, _, _, _)
\* the while loop that walks the DFS parent chain from node_id back to dep_id
cycle_walk(parent, current, dep_id, cycle) ==
    IF current = dep_id THEN cycle
    ELSE LET c2  == Append(cycle, current)
             nxt == parent[current]
         IN  IF nxt = NoParent THEN c2 ELSE cycle_walk(parent, nxt, dep_id, c2)

reconstruct_cycle(parent, node_id, dep_id) ==
    Reverse(Append(cycle_walk(parent, node_id, dep_id, <<dep_id>>), dep_id))

RECURSIVE dfs(_, _, _)
RECURSIVE dfs_deps(_, _, _, _)
\* dfs(node_id) of detect_cycles; st = [color, parent, cycles]
dfs(nodes, node_id, st) ==
    LET st1 == [st EXCEPT !.color[node_id] = GRAY]
        st2 == dfs_deps(nodes, node_id, SortedSeq(nodes[node_id].depends_on), st1)
    IN  [st2 EXCEPT !.color[node_id] = BLACK]

\* the loop "for dep_id in nodes[node_id].depends_on" (a set: visited in ascending order here)
dfs_deps(nodes, node_id, deps, st) ==
    IF deps = <<>> THEN st
    ELSE LET dep_id == Head(deps)
             rest   == Tail(deps)
         IN  IF dep_id \notin DOMAIN nodes
               THEN dfs_deps(nodes, node_id, rest, st)
             ELSE IF st.color[dep_id] = GRAY
               THEN dfs_deps(nodes, node_id, rest,
                        [st EXCEPT !.cycles =
                            Append(@, reconstruct_cycle(st.parent, node_id, dep_id))])
             ELSE IF st.color[dep_id] = WHITE
               THEN dfs_deps(nodes, node_id, rest,
                        dfs(nodes, dep_id, [st EXCEPT !.parent[dep_id] = node_id]))
             ELSE dfs_deps(nodes, node_id, rest, st)

RECURSIVE dfs_roots(_, _, _)
\* the loop "for node_id in nodes: if color[node_id] == WHITE: dfs(node_id)"
dfs_roots(nodes, order, st) ==
    IF order = <<>> THEN st
    ELSE IF st.color[Head(order)] = WHITE
           THEN dfs_roots(nodes, Tail(order), dfs(nodes, Head(order), st))
           ELSE dfs_roots(nodes, Tail(order), st)

\* detect_cycles(nodes): the list of cycles found
detect_cycles(nodes) ==
    dfs_roots(nodes, SortedSeq(DOMAIN nodes),
              [color  |-> [n \in DOMAIN nodes |-> WHITE],
               parent |-> [n \in DOMAIN nodes |-> NoParent],
               cycles |-> <<>>]).cycles

\* looks at the first entry of each depends_on list only
FirstDepMissing(ts) ==
    \E i \in DOMAIN ts : ts[i].depends_on # <<>> /\ ts[i].depends_on[1] \notin TaskIdsOf(ts)

\* missing_deps of validate_dag is non-empty
has_missing_deps(ts) ==
    \E i \in DOMAIN ts : \E k \in DOMAIN ts[i].depends_on :
        ts[i].depends_on[k] \notin TaskIdsOf(ts)

\* validate_dag: "ok" when it returns, otherwise the DAGValidationError raised
validate_dag(ts) ==
    IF has_missing_deps(ts) THEN "missing_dependencies"
    ELSE IF detect_cycles(parse_task_dag(ts)) # <<>> THEN "circular_dependencies"
    ELSE "ok"

\* in_degree after the counting loop: one per depends_on ENTRY that names a task
initial_in_degree(ts) ==
    [id \in TaskIdsOf(ts) |->
        LET entries == UNION {{<<i, k>> : k \in DOMAIN ts[i].depends_on} : i \in DOMAIN ts}
        IN  Cardinality({p \in entries :
                            /\ ts[p[1]].id = id
                            /\ ts[p[1]].depends_on[p[2]] \in TaskIdsOf(ts)})]

\* the wave the while loop picks: tasks of remaining with in_degree 0
WaveOfMutant(remaining, in_degree) == {t \in remaining : in_degree[t] <= 1}
WaveOfOneTask(remaining, in_degree) ==
    {t \in remaining : in_degree[t] = 0 /\ \A u \in remaining : in_degree[u] = 0 => t <= u}
wave_of(remaining, in_degree) == {t \in remaining : in_degree[t] = 0}

RECURSIVE remove_wave(_, _, _)
\* "for task_id in wave: remaining.remove(task_id); for dependent_id in dependents: ..."
remove_wave(nodes, wave, acc) ==
    IF wave = <<>> THEN acc
    ELSE LET task_id == Head(wave)
             rem     == acc.remaining \ {task_id}
             deg     == [t \in DOMAIN acc.in_degree |->
                            IF t \in nodes[task_id].dependents /\ t \in rem
                              THEN acc.in_degree[t] - 1
                              ELSE acc.in_degree[t]]
         IN  remove_wave(nodes, Tail(wave), [remaining |-> rem, in_degree |-> deg])

RECURSIVE sort_loop(_, _, _, _)
\* the loop "while remaining"
sort_loop(nodes, remaining, in_degree, ws) ==
    IF remaining = {} THEN [status |-> "ok", waves |-> ws]
    ELSE LET wave == wave_of(remaining, in_degree)
         IN  IF wave = {}
               THEN [status |-> "unable_to_compute_order", waves |-> <<>>]
               ELSE LET r == remove_wave(nodes, SortedSeq(wave),
                                         [remaining |-> remaining, in_degree |-> in_degree])
                    IN  sort_loop(nodes, r.remaining, r.in_degree,
                                  Append(ws, SortedSeq(wave)))

\* topological_sort: status "ok" with the waves, or the error it raises
topological_sort(ts) ==
    IF validate_dag(ts) # "ok"
      THEN [status |-> validate_dag(ts), waves |-> <<>>]
      ELSE sort_loop(parse_task_dag(ts), TaskIdsOf(ts), initial_in_degree(ts), <<>>)

RECURSIVE visit_dependencies(_, _, _)
\* the stack loop of get_task_dependencies
visit_dependencies(nodes, stack, visited) ==
    IF stack = {} THEN visited
    ELSE LET current == CHOOSE c \in stack : TRUE
         IN  IF current \in visited \/ current \notin DOMAIN nodes
               THEN visit_dependencies(nodes, stack \ {current}, visited)
               ELSE visit_dependencies(nodes,
                        (stack \ {current}) \cup (nodes[current].depends_on \ visited),
                        visited \cup {current})

\* get_task_dependencies: all transitive dependencies of a task
get_task_dependencies(task_id, nodes) ==
    visit_dependencies(nodes, nodes[task_id].depends_on, {})

\* tasks_ordered_by_dependency(task_ids, tasks); task_ids is a list
tasks_ordered_by_dependency(task_ids, ts) ==
    IF Len(task_ids) <= 1 THEN TRUE
    ELSE LET deps_between ==
                 {e \in Range(task_ids) \X Range(task_ids) :
                     /\ e[1] \in TaskIdsOf(ts)
                     /\ e[2] \in Range(TaskById(ts, e[1]).depends_on)}
             in_count(t)  == Cardinality({e \in deps_between : e[1] = t})
             out_count(t) == Cardinality({e \in deps_between : e[2] = t})
             starts == {i \in DOMAIN task_ids : in_count(task_ids[i]) = 0}
             ends   == {i \in DOMAIN task_ids : out_count(task_ids[i]) = 0}
         IN  /\ Cardinality(starts) = 1
             /\ Cardinality(ends) = 1
             /\ Cardinality(deps_between) = Len(task_ids) - 1

(***************************************************************************)
(* core/conflict.py                                                        *)
(***************************************************************************)
\* get_implied_resources(intent): intent = [action, intent (a dict)]
get_implied_resources(intent) ==
    LET action == intent.action
        data   == intent.intent
    IN  IF action = "add_router"
          THEN <<(<<"route", DictGet(data, "prefix", "/")>>)>>
        ELSE IF action = "add_dependency"
          THEN IF DictGet(data, "function_name", "") # ""
                 THEN <<(<<"di", data["function_name"]>>)>> ELSE <<>>
        ELSE IF action = "add_config"
          THEN IF DictGet(data, "key", "") # ""
                 THEN <<(<<"config", data["key"]>>)>> ELSE <<>>
        ELSE IF action = "add_middleware"
          THEN IF DictGet(data, "middleware_class", "") # ""
                 THEN <<(<<"middleware", data["middleware_class"]>>)>> ELSE <<>>
        ELSE <<>>

\* d[key].append(value) on a defaultdict(list) that keeps insertion order
dict_append(d, key, value) ==
    IF \E i \in DOMAIN d : d[i].key = key
      THEN [i \in DOMAIN d |->
               IF d[i].key = key
                 THEN [key |-> key, writers |-> Append(d[i].writers, value)]
                 ELSE d[i]]
      ELSE Append(d, [key |-> key, writers |-> <<value>>])

RECURSIVE dict_append_all(_, _, _)
\* "for k in keys: d[k].append(value)"
dict_append_all(d, keys, value) ==
    IF keys = <<>> THEN d
    ELSE dict_append_all(dict_append(d, Head(keys), value), Tail(keys), value)

RECURSIVE implied_of_intents(_)
\* the implied resources of a task's patch_intents, in order
implied_of_intents(intents) ==
    IF intents = <<>> THEN <<>>
    ELSE get_implied_resources(Head(intents)) \o implied_of_intents(Tail(intents))

RECURSIVE collect_file_writes(_, _)
\* file_writes of detect_file_conflicts: file -> [task ids]
collect_file_writes(ts, d) ==
    IF ts = <<>> THEN d
    ELSE collect_file_writes(Tail(ts), dict_append_all(d, Head(ts).files_write, Head(ts).id))

RECURSIVE collect_resource_writes(_, _)
\* resource_writes of detect_resource_conflicts: resource -> [task ids]
collect_resource_writes(ts, d) ==
    IF ts = <<>> THEN d
    ELSE collect_resource_writes(Tail(ts),
            dict_append_all(
                dict_append_all(d, Head(ts).resources_write, Head(ts).id),
                implied_of_intents(Head(ts).patch_intents), Head(ts).id))

RECURSIVE conflicts_of(_, _, _)
\* the loop "for target, writers in d.items()" of both detectors
conflicts_of(type, d, ts) ==
    IF d = <<>> THEN <<>>
    ELSE LET e == Head(d)
         IN  IF Len(e.writers) > 1 /\ ~tasks_ordered_by_dependency(e.writers, ts)
               THEN <<[type |-> type, target |-> e.key, tasks |-> e.writers]>>
                        \o conflicts_of(type, Tail(d), ts)
               ELSE conflicts_of(type, Tail(d), ts)

detect_file_conflicts(ts) == conflicts_of("file", collect_file_writes(ts, <<>>), ts)

detect_resource_conflicts(ts) ==
    conflicts_of("resource", collect_resource_writes(ts, <<>>), ts)

detect_all_conflicts(ts) == detect_file_conflicts(ts) \o detect_resource_conflicts(ts)

\* suggest_dependency_fix(conflict, tasks): each task depends on the previous one
suggest_dependency_fix(conflict, ts) ==
    [i \in 1..(Len(conflict.tasks) - 1) |-> <<conflict.tasks[i + 1], conflict.tasks[i]>>]

(***************************************************************************)
(* schemas/status.py and core/state.py: the orchestration state.           *)
(* Optional fields hold "None" until set; a timestamp that was set is      *)
(* "set" (datetime.now() is not compared anywhere).                        *)
(***************************************************************************)
TaskStates ==
    {"pending", "executing", "verifying", "verified", "merging", "merged", "failed", "blocked"}

VALID_TRANSITIONS ==
    [s \in TaskStates |->
        CASE s = "pending"   -> {"executing", "blocked"}
          [] s = "blocked"   -> {"pending", "executing"}
          [] s = "executing" -> {"verifying", "failed"}
          [] s = "verifying" -> {"verified", "failed", "executing"}
          [] s = "verified"  -> {"merging"}
          [] s = "merging"   -> {"merged", "failed"}
          [] s = "merged"    -> {}
          [] s = "failed"    -> {"pending", "executing"}]

max_iterations == 3

\* TaskStatus(task_id=...): the model's defaults
TaskStatus(task_id) ==
    [task_id |-> task_id, status |-> "pending", started_at |-> "None", completed_at |-> "None",
     verification_result |-> "None"]

\* create_initial_state(request_id, original_request, task_ids)
create_initial_state(task_ids) ==
    [tasks         |-> [t \in task_ids |-> TaskStatus(t)],
     environment   |-> "None",
     current_phase |-> "initializing",
     iteration     |-> 1,
     completed_at  |-> "None",
     success       |-> "None"]

\* state.tasks[task_id] = value
WithTask(st, task_id, value) ==
    [st EXCEPT !.tasks = [t \in DOMAIN st.tasks \cup {task_id} |->
                             IF t = task_id THEN value ELSE st.tasks[t]]]

\* the task record update_task_status acts on: created with the defaults if missing
TaskOrDefault(st, task_id) ==
    IF task_id \in DOMAIN st.tasks THEN st.tasks[task_id] ELSE TaskStatus(task_id)

\* update_task_status(state, task_id, new_status, **kwargs); kwargs is a function
\* from field names to values, and a key that is no field of the task is skipped
update_task_status_kwargs(st, task_id, new_status, kwargs) ==
    LET task == TaskOrDefault(st, task_id)
        t1   == [task EXCEPT !.status = new_status]
        t2   == IF new_status = "executing" /\ t1.started_at = "None"
                  THEN [t1 EXCEPT !.started_at = "set"]
                ELSE IF new_status \in {"merged", "failed"}
                  THEN [t1 EXCEPT !.completed_at = "set"]
                ELSE t1
        t3   == [k \in DOMAIN t2 |-> IF k \in DOMAIN kwargs THEN kwargs[k] ELSE t2[k]]
    IN  WithTask(st, task_id, t3)

\* update_task_status(state, task_id, new_status) (no extra keyword fields)
update_task_status(st, task_id, new_status) ==
    update_task_status_kwargs(st, task_id, new_status, <<>>)

\* TaskStatus.is_verified(); a VerificationResult is modelled by its
\* verification_passed field: "passed" or "failed"
is_verified(task) ==
    /\ task.status \in {"verified", "merging", "merged"}
    /\ task.verification_result # "None"
    /\ task.verification_result = "passed"

\* set_environment(state, env_hash)
set_environment(st, env_hash) == [st EXCEPT !.environment = env_hash]

\* complete_orchestration(state, success, summary)
complete_orchestration(st, success) ==
    [st EXCEPT !.success = success, !.completed_at = "set", !.current_phase = "completed"]

\* OrchestrationState.all_tasks_complete / TaskStatus.is_complete
is_complete(task) == task.status \in {"merged", "failed"}
all_tasks_complete(st) == \A t \in DOMAIN st.tasks : is_complete(st.tasks[t])

(***************************************************************************)
(* The state store driven by any caller: every call of its functions with  *)
(* every argument.                                                         *)
(***************************************************************************)
StoreIds == 1..StoreTasks
EnvHashes == {"X", "Y"}

NoState == create_initial_state({})
StoreIdle == state = NoState /\ retries = [t \in {} |-> 0]

Init ==
    /\ \E task_ids \in SUBSET StoreIds : state = create_initial_state(task_ids)
    /\ retries = [t \in StoreIds |-> 0]
    /\ tasks = <<>>
    /\ validation = "not_run"
    /\ waves = NotRun
    /\ conflicts = NoConflicts
    /\ VerifyIdle
    /\ DiskIdle
    /\ ObjIdle

\* a retry: the task was failed and is put back to pending or executing
IsRetry(st, task_id, new_status) ==
    /\ TaskOrDefault(st, task_id).status = "failed"
    /\ new_status \in {"pending", "executing"}

UpdateTaskStatus(task_id, new_status) ==
    /\ IsRetry(state, task_id, new_status) => retries[task_id] < RetryCap
    /\ state' = update_task_status(state, task_id, new_status)
    /\ retries' = IF IsRetry(state, task_id, new_status)
                    THEN [retries EXCEPT ![task_id] = @ + 1]
                    ELSE retries
    /\ UNCHANGED <<planVars, verifyVars, diskVars, objVars>>

SetEnvironment(env_hash) ==
    /\ state' = set_environment(state, env_hash)
    /\ UNCHANGED <<retries, planVars, verifyVars, diskVars, objVars>>

CompleteOrchestration(success) ==
    /\ state' = complete_orchestration(state, success)
    /\ UNCHANGED <<retries, planVars, verifyVars, diskVars, objVars>>

Next ==
    \/ \E task_id \in StoreIds, new_status \in TaskStates : UpdateTaskStatus(task_id, new_status)
    \/ \E env_hash \in EnvHashes : SetEnvironment(env_hash)
    \/ \E success \in {"True", "False"} : CompleteOrchestration(success)

Spec == Init /\ [][Next]_vars

\* the statuses of a task that a worker has started on
Started == {"executing", "verifying", "verified", "merging", "merged"}

\* C1: a task's status changes from s to s' only if s' is an allowed successor of
\* s in VALID_TRANSITIONS (a task the store did not hold yet starts as pending).
C1_UpdatesObeyTransitions ==
    [][\A t \in DOMAIN state'.tasks :
          LET old == TaskOrDefault(state, t).status
              new == state'.tasks[t].status
          IN  new # old => new \in VALID_TRANSITIONS[old]]_vars

\* C6: at most one task is in the merging state at any instant.
C6_AtMostOneMerging ==
    Cardinality({t \in DOMAIN state.tasks : state.tasks[t].status = "merging"}) <= 1

\* C8: a task that is executing, or in a later state, implies that the
\* environment of the state is set.
C8_EnvironmentSetBeforeWorkers ==
    \A t \in DOMAIN state.tasks :
        state.tasks[t].status \in Started => state.environment # "None"

\* C9: over any run a task goes from failed back to pending or executing at most
\* max_iterations times, and the iteration counter never exceeds max_iterations.
C9_RetryBounded ==
    /\ \A t \in DOMAIN retries : retries[t] <= max_iterations
    /\ state.iteration <= max_iterations

\* C10: success is recorded only when every task of the state is merged.
C10_SuccessOnlyWhenAllMerged ==
    state.success = "True" =>
        \A t \in DOMAIN state.tasks : state.tasks[t].status = "merged"

(***************************************************************************)
(* The lifecycle of one task: its status is updated by any caller, with or *)
(* without the result of the verifier.                                     *)
(***************************************************************************)
InitLifecycle ==
    /\ state = create_initial_state({1})
    /\ retries = [t \in StoreIds |-> 0]
    /\ tasks = <<>>
    /\ validation = "not_run"
    /\ waves = NotRun
    /\ conflicts = NoConflicts
    /\ VerifyIdle
    /\ DiskIdle
    /\ ObjIdle

\* the keyword arguments of a call: none, or the verifier's result
VerifierKwargs ==
    {<<>>, [verification_result |-> "passed"], [verification_result |-> "failed"]}

UpdateTaskStatusKwargs(task_id, new_status, kwargs) ==
    /\ IsRetry(state, task_id, new_status) => retries[task_id] < RetryCap
    /\ state' = update_task_status_kwargs(state, task_id, new_status, kwargs)
    /\ retries' = IF IsRetry(state, task_id, new_status)
                    THEN [retries EXCEPT ![task_id] = @ + 1]
                    ELSE retries
    /\ UNCHANGED <<planVars, verifyVars, diskVars, objVars>>

NextLifecycle ==
    \E new_status \in TaskStates, kwargs \in VerifierKwargs :
        UpdateTaskStatusKwargs(1, new_status, kwargs)

SpecLifecycle == InitLifecycle /\ [][NextLifecycle]_vars

\* C11: a task whose status is verified, merging or merged has a verification
\* result that passed (is_verified() is true).
C11_MergedOnlyAfterVerification ==
    \A t \in DOMAIN state.tasks :
        state.tasks[t].status \in {"verified", "merging", "merged"} =>
            is_verified(state.tasks[t])

(***************************************************************************)
(* The DAG engine applied to a plan: validate_dag and topological_sort.    *)
(***************************************************************************)

\* plans of up to MaxTasks tasks with ids 1..n; a depends_on list may repeat an
\* id, name the task itself or name an id that is not in the plan
InitDag ==
    /\ \E n \in 0..MaxTasks :
         \E d \in [1..n -> SeqsUpTo(1..MaxTasks, MaxDeps)] :
            tasks = [i \in 1..n |-> TaskSpec(i, d[i], <<>>, <<>>, <<>>, <<>>)]
    /\ validation = "not_run"
    /\ waves = NotRun
    /\ conflicts = NoConflicts
    /\ StoreIdle
    /\ VerifyIdle
    /\ DiskIdle
    /\ ObjIdle

ValidateDag ==
    /\ validation = "not_run"
    /\ validation' = validate_dag(tasks)
    /\ UNCHANGED <<tasks, waves, conflicts, storeVars, verifyVars, diskVars, objVars>>

TopologicalSort ==
    /\ waves.status = "not_run"
    /\ waves' = topological_sort(tasks)
    /\ UNCHANGED <<tasks, validation, conflicts, storeVars, verifyVars, diskVars, objVars>>

NextDag == ValidateDag \/ TopologicalSort

SpecDag == InitDag /\ [][NextDag]_vars

(***************************************************************************)
(* Claims about the waves.                                                 *)
(***************************************************************************)
\* the ids in the waves before wave k
WavesBefore(W, k) == UNION {Range(W[j]) : j \in 1..(k - 1)}

\* the indices of the waves that hold id t
WavesHolding(W, t) == {k \in DOMAIN W : t \in Range(W[k])}

\* every id a depends_on list of task id t names
DeclaredDeps(ts, t) == UNION {Range(ts[i].depends_on) : i \in {j \in DOMAIN ts : ts[j].id = t}}

RECURSIVE ChainLength(_, _)
\* the number of tasks on the longest dependency chain that ends in t (acyclic plans)
ChainLength(ts, t) ==
    LET below == {ChainLength(ts, d) : d \in DeclaredDeps(ts, t)}
    IN  IF below = {} THEN 1 ELSE 1 + (CHOOSE m \in below : \A x \in below : x <= m)

LongestChain(ts) ==
    LET all == {ChainLength(ts, t) : t \in TaskIdsOf(ts)}
    IN  IF all = {} THEN 0 ELSE CHOOSE m \in all : \A x \in all : x <= m

\* C2: whenever topological_sort returns waves, every task id is in exactly one
\* wave (once), the waves hold nothing but task ids, and every dependency of a
\* task in wave k lies in a wave with a smaller index.
C2_WavesCoverAndRespectDeps ==
    waves.status = "ok" =>
        LET W == waves.waves
        IN  /\ \A t \in TaskIdsOf(tasks) :
                 Cardinality({p \in UNION {{<<k, j>> : j \in DOMAIN W[k]} : k \in DOMAIN W} :
                                 W[p[1]][p[2]] = t}) = 1
            /\ \A k \in DOMAIN W : Range(W[k]) \subseteq TaskIdsOf(tasks)
            /\ \A t \in TaskIdsOf(tasks) : \A k \in WavesHolding(W, t) :
                 DeclaredDeps(tasks, t) \subseteq WavesBefore(W, k)

\* a chain of three tasks was sorted into three waves
C2_Witness ==
    /\ waves.status = "ok"
    /\ Len(waves.waves) = 3
    /\ \E t \in TaskIdsOf(tasks) : Cardinality(DeclaredDeps(tasks, t)) = 1

\* C3: the waves are the minimum-height layering: wave k is exactly the set of
\* tasks not yet placed whose every dependency is in an earlier wave; a task
\* without dependencies is in the first wave, any other task is in the wave right
\* after the latest wave of its dependencies, and the number of waves is the
\* length of the longest dependency chain.
C3_MinimumHeightLayering ==
    waves.status = "ok" =>
        LET W == waves.waves
            ids == TaskIdsOf(tasks)
            WaveIndex(t) == CHOOSE k \in DOMAIN W : t \in Range(W[k])
        IN  /\ \A k \in DOMAIN W :
                 Range(W[k]) = {t \in ids : /\ t \notin WavesBefore(W, k)
                                            /\ DeclaredDeps(tasks, t) \subseteq WavesBefore(W, k)}
            /\ \A t \in ids :
                 IF DeclaredDeps(tasks, t) = {}
                   THEN WaveIndex(t) = 1
                   ELSE /\ \A d \in DeclaredDeps(tasks, t) : WaveIndex(d) < WaveIndex(t)
                        /\ \E d \in DeclaredDeps(tasks, t) : WaveIndex(t) = WaveIndex(d) + 1
            /\ Len(W) = LongestChain(tasks)

\* two tasks share the second wave behind a common dependency
C3_Witness ==
    /\ waves.status = "ok"
    /\ Len(waves.waves) = 2
    /\ Len(waves.waves[2]) = 2
    /\ \A t \in Range(waves.waves[2]) : DeclaredDeps(tasks, t) # {}

RECURSIVE ReachableDeps(_, _, _)
\* the ids reached from the ids of `frontier` along depends_on entries
ReachableDeps(ts, frontier, seen) ==
    LET next == UNION {DeclaredDeps(ts, t) : t \in frontier} \ seen
    IN  IF next = {} THEN seen ELSE ReachableDeps(ts, next, seen \cup next)

\* the graph of the plan has a cycle: some task reaches itself
HasCycle(ts) == \E t \in TaskIdsOf(ts) : t \in ReachableDeps(ts, {t}, {})

\* some depends_on entry names an id that no task of the plan carries
HasMissingDependency(ts) == \E t \in TaskIdsOf(ts) : ~(DeclaredDeps(ts, t) \subseteq TaskIdsOf(ts))

\* C15: validate_dag raises DAGValidationError exactly when some depends_on entry
\* names an id that is not in the task list or the graph has a cycle (a
\* self-dependency included); for every other task list it returns.
C15_ValidateDagRaisesExactly ==
    validation # "not_run" =>
        (validation # "ok" <=> (HasMissingDependency(tasks) \/ HasCycle(tasks)))

\* validate_dag raised for a plan whose only flaw is a task naming itself
C15_Witness ==
    /\ validation = "circular_dependencies"
    /\ \E i \in DOMAIN tasks : tasks[i].depends_on = <<tasks[i].id>>
    /\ \A i \in DOMAIN tasks : Len(tasks[i].depends_on) <= 1

(***************************************************************************)
(* The chain test applied to a list of ids of a plan.                      *)
\* C34: topological_sort returns waves for every plan validate_dag accepts,
\* also when a depends_on list names a dependency more than once.
C34_SortTotalOnValidatedPlans ==
    (waves.status # "not_run" /\ validate_dag(tasks) = "ok") => waves.status = "ok"

(***************************************************************************)
\* any plan of InitDag; the chain test has not been called
InitChain ==
    /\ \E n \in 0..MaxTasks :
         \E d \in [1..n -> SeqsUpTo(1..MaxTasks, MaxDeps)] :
            tasks = [i \in 1..n |-> TaskSpec(i, d[i], <<>>, <<>>, <<>>, <<>>)]
    /\ validation = "not_run"
    /\ waves = NotRun
    /\ conflicts = NoConflicts
    /\ StoreIdle
    /\ VerifyIdle
    /\ DiskIdle
    /\ ObjIdle

TasksOrderedByDependency(task_ids) ==
    /\ verdict = NoVerdict
    /\ verdict' = [op |-> "tasks_ordered_by_dependency", task_ids |-> task_ids,
                   result |-> tasks_ordered_by_dependency(task_ids, tasks)]
    /\ UNCHANGED <<planVars, storeVars, worktree, diskVars, objVars>>

NextChain == \E task_ids \in SeqsUpTo(1..MaxTasks, MaxTasks) : TasksOrderedByDependency(task_ids)

SpecChain == InitChain /\ [][NextChain]_vars

\* the direct dependencies of id t that are among the ids S
DepsAmong(ts, S, t) == DeclaredDeps(ts, t) \cap S

\* the ids of S that directly depend on t
DependentsAmong(ts, S, t) == {u \in S : t \in DeclaredDeps(ts, u)}

RECURSIVE ChainFrom(_, _, _, _)
\* the ids met when walking from `frontier` to direct dependents inside S
ChainFrom(ts, S, frontier, seen) ==
    LET next == UNION {DependentsAmong(ts, S, t) : t \in frontier} \ seen
    IN  IF next = {} THEN seen ELSE ChainFrom(ts, S, next, seen \cup next)

\* the ids S form one linear dependency chain (fewer than two ids need no order)
IsLinearChain(ts, S) ==
    \/ Cardinality(S) <= 1
    \/ /\ \A t \in S : Cardinality(DepsAmong(ts, S, t)) <= 1
       /\ \A t \in S : Cardinality(DependentsAmong(ts, S, t)) <= 1
       /\ Cardinality({t \in S : DepsAmong(ts, S, t) = {}}) = 1
       /\ Cardinality({t \in S : DependentsAmong(ts, S, t) = {}}) = 1
       /\ \E t \in S : DepsAmong(ts, S, t) = {} /\ ChainFrom(ts, S, {t}, {t}) = S

\* C16: tasks_ordered_by_dependency(ids, tasks) is true if and only if the ids
\* form one linear dependency chain inside the subset: at most one direct
\* dependency and one direct dependent per id among ids, exactly one start and
\* one end, and every id on that single chain.
C16_TrueIffLinearChain ==
    verdict.op = "tasks_ordered_by_dependency" =>
        (verdict.result <=> IsLinearChain(tasks, Range(verdict.task_ids)))

(***************************************************************************)
(* The conflict analyzer applied to a plan.                                *)
(***************************************************************************)
AppFile == "src/app.py"
AuthRoute == <<"route", "/auth">>
AddAuthRouter == [action |-> "add_router", intent |-> ("prefix" :> "/auth")]

\* what one task claims: nothing, the file, the resource (explicitly), or the
\* resource both explicitly and through a patch intent that implies it
ClaimProfiles ==
    { [files_write |-> <<>>,        resources_write |-> <<>>,          patch_intents |-> <<>>],
      [files_write |-> <<AppFile>>, resources_write |-> <<>>,          patch_intents |-> <<>>],
      [files_write |-> <<>>,        resources_write |-> <<AuthRoute>>, patch_intents |-> <<>>],
      [files_write |-> <<>>,        resources_write |-> <<AuthRoute>>, patch_intents |-> <<AddAuthRouter>>] }

\* depends_on lists without repetition that name up to ConflictDeps tasks
ConflictDepLists ==
    {SortedSeq(S) : S \in {D \in SUBSET (1..ConflictTasks) : Cardinality(D) <= ConflictDeps}}

\* plans of up to ConflictTasks tasks with ids 1..n in which no task names itself
InitConflict ==
    /\ \E n \in 0..ConflictTasks :
         \E d \in [1..n -> ConflictDepLists], c \in [1..n -> ClaimProfiles] :
            /\ \A i \in 1..n : i \notin Range(d[i])
            /\ tasks = [i \in 1..n |-> TaskSpec(i, d[i], c[i].files_write, <<>>,
                                               c[i].resources_write, c[i].patch_intents)]
    /\ validation = "not_run"
    /\ waves = NotRun
    /\ conflicts = NoConflicts
    /\ StoreIdle
    /\ VerifyIdle
    /\ DiskIdle
    /\ ObjIdle

DetectAllConflicts ==
    /\ conflicts.status = "not_run"
    /\ conflicts' = [status |-> "done", list |-> detect_all_conflicts(tasks)]
    /\ UNCHANGED <<tasks, validation, waves, storeVars, verifyVars, diskVars, objVars>>

NextConflict == DetectAllConflicts

SpecConflict == InitConflict /\ [][NextConflict]_vars

\* the resources a task claims: resources_write and those implied by its intents
ClaimedResources(t) == Range(t.resources_write) \cup Range(implied_of_intents(t.patch_intents))

\* two tasks share a path of files_write or a claimed resource
SharesTarget(t, u) ==
    \/ Range(t.files_write) \cap Range(u.files_write) # {}
    \/ ClaimedResources(t) \cap ClaimedResources(u) # {}

\* one of the two tasks transitively depends on the other
OrderedByDependency(ts, t, u) ==
    \/ u.id \in get_task_dependencies(t.id, parse_task_dag(ts))
    \/ t.id \in get_task_dependencies(u.id, parse_task_dag(ts))

C35_ConflictNeedsTwoTasks ==
    conflicts.status = "done" =>
        \A i \in DOMAIN conflicts.list : Cardinality(Range(conflicts.list[i].tasks)) >= 2

\* any two distinct ids of W are ordered by transitive dependency
PairwiseOrdered(ts, W) ==
    \A a, b \in W :
        a # b => \/ b \in get_task_dependencies(a, parse_task_dag(ts))
                 \/ a \in get_task_dependencies(b, parse_task_dag(ts))

\* C17: a conflict is reported for a file or resource only when its writers
\* are not ordered: no conflict is reported for a target whose writers are
\* pairwise ordered by transitive dependency, also when the ordering passes
\* through a task that does not write the target.
C17_NoConflictForOrderedWriters ==
    (conflicts.status = "done" /\ validate_dag(tasks) = "ok") =>
        \A k \in DOMAIN conflicts.list :
            ~PairwiseOrdered(tasks, Range(conflicts.list[k].tasks))

(***************************************************************************)
(* The suggested fix of a reported conflict.                               *)
(***************************************************************************)
\* depends_on lists without repetition over the ids of a plan of FixTasks tasks
FixDepLists ==
    {SortedSeq(S) : S \in {D \in SUBSET (1..FixTasks) : Cardinality(D) <= ConflictDeps}}

\* plans of up to FixTasks tasks with ids 1..n in which no task names itself
InitFix ==
    /\ \E n \in 0..FixTasks :
         \E d \in [1..n -> FixDepLists], c \in [1..n -> ClaimProfiles] :
            /\ \A i \in 1..n : i \notin Range(d[i])
            /\ tasks = [i \in 1..n |-> TaskSpec(i, d[i], c[i].files_write, <<>>,
                                               c[i].resources_write, c[i].patch_intents)]
    /\ validation = "not_run"
    /\ waves = NotRun
    /\ conflicts = NoConflicts
    /\ StoreIdle
    /\ VerifyIdle
    /\ DiskIdle
    /\ ObjIdle

\* suggest_dependency_fix called with the k-th reported conflict
SuggestDependencyFix(k) ==
    /\ conflicts.status = "done"
    /\ verdict = NoVerdict
    /\ k \in DOMAIN conflicts.list
    /\ verdict' = [op |-> "suggest_dependency_fix", conflict |-> conflicts.list[k],
                   suggestions |-> suggest_dependency_fix(conflicts.list[k], tasks)]
    /\ UNCHANGED <<planVars, storeVars, worktree, diskVars, objVars>>

NextFix == DetectAllConflicts \/ \E k \in 1..(2 * FixTasks) : SuggestDependencyFix(k)

SpecFix == InitFix /\ [][NextFix]_vars

RECURSIVE WithEdges(_, _)
\* the plan after adding every edge (dependent, dependency) to depends_on
WithEdges(ts, edges) ==
    IF edges = <<>> THEN ts
    ELSE LET e == Head(edges)
             added == [i \in DOMAIN ts |->
                          IF ts[i].id = e[1] /\ e[2] \notin Range(ts[i].depends_on)
                            THEN [ts[i] EXCEPT !.depends_on = Append(@, e[2])]
                            ELSE ts[i]]
         IN  WithEdges(added, Tail(edges))

\* C19: suggest_dependency_fix returns, for a conflict on tasks t0..tn, exactly
\* the edges (t[i+1], t[i]); after adding them to depends_on the conflict on
\* that target is no longer reported and the dependency graph is still acyclic.
C19_FixSerializesConflict ==
    (verdict.op = "suggest_dependency_fix" /\ validate_dag(tasks) = "ok") =>
        LET c     == verdict.conflict
            fixed == WithEdges(tasks, verdict.suggestions)
            after == detect_all_conflicts(fixed)
        IN  /\ Len(verdict.suggestions) = Len(c.tasks) - 1
            /\ \A i \in DOMAIN verdict.suggestions :
                   verdict.suggestions[i] = <<c.tasks[i + 1], c.tasks[i]>>
            /\ \A k \in DOMAIN after : ~(after[k].type = c.type /\ after[k].target = c.target)
            /\ validate_dag(fixed) = "ok"

(***************************************************************************)
(* utils/git.py, worktree/isolation.py, core/environment.py,               *)
(* verification/boundaries.py: verification of one task.                   *)
(*                                                                         *)
(* The worktree is the task branch as git sees it: the files that differ   *)
(* from main, the exit codes of the two diff commands, the line count      *)
(* numstat reports for a changed file and whether the changes are          *)
(* whitespace only.  The working tree is clean, so both diff commands list *)
(* the same files when they succeed.                                       *)
(***************************************************************************)
SrcFile == "src/app.py"
LockFile == "package-lock.json"
DistFile == "dist/app.js"
Paths == {SrcFile, LockFile, DistFile}
PathList == <<SrcFile, LockFile, DistFile>>

\* a list holding the paths of S
ListOf(S) == SelectSeq(PathList, LAMBDA p : p \in S)

\* Path(file_path).suffix.lower()
path_suffix(f) ==
    CASE f = SrcFile -> ".py" [] f = LockFile -> ".json" [] f = DistFile -> ".js"

DEFAULT_FORBIDDEN_PATTERNS ==
    <<"node_modules/", "__pycache__/", "\\.pyc$", "vendor/", "dist/", "build/",
      "\\.generated\\.", "\\.min\\.(js|css)$">>

\* f"(^|/){re.escape(lockfile)}$" for each entry of COMMON_LOCKFILES
COMMON_LOCKFILES ==
    <<"(^|/)package\\-lock\\.json$", "(^|/)pnpm\\-lock\\.yaml$", "(^|/)yarn\\.lock$",
      "(^|/)uv\\.lock$", "(^|/)poetry\\.lock$", "(^|/)requirements\\.lock$",
      "(^|/)Pipfile\\.lock$", "(^|/)Cargo\\.lock$", "(^|/)go\\.sum$",
      "(^|/)Gemfile\\.lock$", "(^|/)packages\\.lock\\.json$", "(^|/)composer\\.lock$">>

\* re.search(pattern, file_path) on the paths of the model
re_search(pattern, f) ==
    <<pattern, f>> \in {<<"dist/", DistFile>>, <<"(^|/)package\\-lock\\.json$", LockFile>>}

churn_threshold_lines == 500

\* BoundarySettings() with its defaults
BoundarySettings ==
    [reject_excessive_churn     |-> TRUE,
     churn_threshold_lines      |-> churn_threshold_lines,
     reject_formatting_churn    |-> TRUE,
     formatting_check_allowlist |-> {".js", ".ts", ".jsx", ".tsx", ".json", ".css",
                                     ".html", ".java", ".go", ".rs"},
     formatting_check_denylist  |-> {".py", ".yaml", ".yml", ".mk", "Makefile"},
     forbidden_patterns         |-> <<"node_modules/", "__pycache__/", "vendor/", "dist/",
                                      "build/", "\\.generated\\.", "\\.min\\.(js|css)$">>]

\* OrchestrationConfig() with its defaults but for dependencies.verify_env_hash
OrchestrationConfig(verify_env_hash) ==
    [present      |-> TRUE,
     boundaries   |-> BoundarySettings,
     dependencies |-> [verify_env_hash |-> verify_env_hash, ecosystems |-> <<>>]]

\* config=None
NoConfig == [present |-> FALSE]

\* get_modified_files(worktree)
get_modified_files(wt) ==
    LET first  == wt.diff_branch_rc
        second == IF first # 0 THEN wt.diff_tree_rc ELSE first
    IN  IF second = 0 THEN wt.changed ELSE {}

\* get_file_diff_stats(worktree, file_path).lines_changed
get_file_diff_stats(wt, f) ==
    IF wt.diff_tree_rc = 0 /\ f \in wt.changed THEN wt.lines_changed ELSE 0

\* get_lockfile_patterns(config)
get_lockfile_patterns(config) ==
    LET own == IF config.present THEN config.dependencies.ecosystems ELSE <<>>
    IN  own \o SelectSeq(COMMON_LOCKFILES, LAMBDA p : p \notin Range(own))

\* is_formatting_only_change(worktree, file_path, allowlist, denylist)
is_formatting_only_change(wt, f, allowlist, denylist) ==
    IF path_suffix(f) \in denylist THEN FALSE
    ELSE IF path_suffix(f) \notin allowlist THEN FALSE
    ELSE wt.diff_tree_rc = 0 /\ (f \in wt.changed => wt.whitespace_only)

BoundaryViolation(type, file) == [type |-> type, file |-> file]

\* the files of `files` that some pattern of the list matches
matching(files, patterns) ==
    {f \in files : \E i \in DOMAIN patterns : re_search(patterns[i], f)}

\* validate_boundaries(task_id, task_spec, config, worktree_base); the violations
\* are a set, the order of the list follows the iteration order of a Python set
validate_boundaries(task_spec, config, wt) ==
    LET modified == get_modified_files(wt)
        allowed  == Range(task_spec.files_write) \cup Range(task_spec.files_append)
        forbidden_patterns ==
            IF config.present THEN config.boundaries.forbidden_patterns
            ELSE DEFAULT_FORBIDDEN_PATTERNS
        unauthorized == {BoundaryViolation("unauthorized_file", f) : f \in modified \ allowed}
        forbidden == {BoundaryViolation("forbidden_pattern", f) :
                         f \in matching(modified, forbidden_patterns)}
        lockfile == {BoundaryViolation("forbidden_lockfile", f) :
                         f \in matching(modified, get_lockfile_patterns(config))}
        churn ==
            IF config.present /\ config.boundaries.reject_excessive_churn
              THEN {BoundaryViolation("excessive_churn", f) :
                      f \in {g \in modified \cap allowed :
                               /\ get_file_diff_stats(wt, g) > config.boundaries.churn_threshold_lines
                               /\ ~task_spec.allow_large_changes}}
              ELSE {}
        formatting ==
            IF config.present /\ config.boundaries.reject_formatting_churn
              THEN {BoundaryViolation("formatting_only", f) :
                      f \in {g \in modified \cap allowed :
                               is_formatting_only_change(wt, g,
                                   config.boundaries.formatting_check_allowlist,
                                   config.boundaries.formatting_check_denylist)}}
              ELSE {}
        violations == unauthorized \cup forbidden \cup lockfile \cup churn \cup formatting
    IN  [valid |-> violations = {}, violations |-> violations]

\* validate_environment(task_env_hash, global_env_hash)
validate_environment(task_env_hash, global_env_hash) ==
    IF task_env_hash = "None"
      THEN [valid |-> FALSE, error |-> "Task did not record environment hash."]
    ELSE IF task_env_hash # global_env_hash
      THEN [valid |-> FALSE, error |-> "Environment mismatch"]
    ELSE [valid |-> TRUE, error |-> "None"]

\* validate_task_fully(task_id, task_spec, task_status, global_state, config,
\* worktree_base): the boundary and environment parts of the result; task_env is
\* task_status.environment.hash, or "None" when task_status.environment is None
validate_task_fully(task_spec, task_env, global_state, config, wt) ==
    LET boundary_result == validate_boundaries(task_spec, config, wt)
        checked    == config.dependencies.verify_env_hash /\ global_state.environment # "None"
        env_result == validate_environment(task_env, global_state.environment)
    IN  [boundaries_valid    |-> boundary_result.valid,
         boundary_violations |-> boundary_result.violations,
         environment_valid   |-> IF checked THEN env_result.valid ELSE TRUE,
         environment_error   |-> IF checked THEN env_result.error ELSE "None"]

(***************************************************************************)
(* Verification of task 1 in its worktree, while the environment of the    *)
(* state may be installed or re-installed.                                 *)
(***************************************************************************)
GitExitCodes == {0, 128}

\* the worktrees git may present: what changed, how the two diff commands exit,
\* the size and the kind of the change
Worktrees(changes, line_counts, kinds) ==
    {[exists |-> TRUE, changed |-> changed, diff_branch_rc |-> rc1, diff_tree_rc |-> rc2,
      lines_changed |-> lines, whitespace_only |-> whitespace_only] :
        changed \in changes, rc1 \in GitExitCodes, rc2 \in GitExitCodes,
        lines \in line_counts, whitespace_only \in kinds}

\* the task specs verification is called with
VerifiedSpecs(writes, appends, large_changes) ==
    {TaskSpec(1, <<>>, ListOf(fw), ListOf(fa), <<>>, <<>>) @@ [allow_large_changes |-> large] :
        fw \in writes, fa \in appends, large \in large_changes}

\* a task with any boundaries in a worktree with any changes
InitBoundaries ==
    /\ worktree \in Worktrees(SUBSET Paths,
                              {churn_threshold_lines, churn_threshold_lines + 1}, BOOLEAN)
    /\ \E task_spec \in VerifiedSpecs(SUBSET Paths, SUBSET {SrcFile}, BOOLEAN) :
          tasks = <<task_spec>>
    /\ verdict = NoVerdict
    /\ state = create_initial_state({1})
    /\ retries = [t \in {} |-> 0]
    /\ validation = "not_run"
    /\ waves = NotRun
    /\ conflicts = NoConflicts
    /\ DiskIdle
    /\ ObjIdle

\* a task with any files_write in a worktree with any small change
InitVerify ==
    /\ worktree \in Worktrees(SUBSET Paths, {churn_threshold_lines}, {FALSE})
    /\ \E task_spec \in VerifiedSpecs(SUBSET Paths, {{}}, {FALSE}) : tasks = <<task_spec>>
    /\ verdict = NoVerdict
    /\ state = create_initial_state({1})
    /\ retries = [t \in {} |-> 0]
    /\ validation = "not_run"
    /\ waves = NotRun
    /\ conflicts = NoConflicts
    /\ DiskIdle
    /\ ObjIdle

\* validate_boundaries is called for the task of the plan
ValidateBoundaries(config) ==
    /\ verdict' = [op |-> "validate_boundaries", verify_env_hash |-> "None",
                   task_env |-> "None", global_env |-> "None",
                   result |-> validate_boundaries(tasks[1], config, worktree),
                   environment_valid |-> "None"]
    /\ UNCHANGED <<worktree, planVars, storeVars, diskVars, objVars>>

\* validate_task_fully is called for the task of the plan, with the hash the
\* task recorded and the state as it is now
ValidateTaskFully(task_env, verify_env_hash) ==
    LET config == OrchestrationConfig(verify_env_hash)
        full   == validate_task_fully(tasks[1], task_env, state, config, worktree)
    IN  /\ verdict' = [op |-> "validate_task_fully", verify_env_hash |-> verify_env_hash,
                       task_env |-> task_env, global_env |-> state.environment,
                       result |-> [valid |-> full.boundaries_valid,
                                   violations |-> full.boundary_violations],
                       environment_valid |-> full.environment_valid]
        /\ UNCHANGED <<worktree, planVars, storeVars, diskVars, objVars>>

NextBoundaries ==
    \E config \in {NoConfig, OrchestrationConfig(TRUE)} : ValidateBoundaries(config)

SpecBoundaries == InitBoundaries /\ [][NextBoundaries]_vars

NextVerify ==
    \/ \E env_hash \in EnvHashes : SetEnvironment(env_hash)
    \/ \E task_env \in EnvHashes \cup {"None"}, verify_env_hash \in BOOLEAN :
          ValidateTaskFully(task_env, verify_env_hash)

SpecVerify == InitVerify /\ [][NextVerify]_vars

\* the paths a task spec allows the task to modify
AllowedPaths(task_spec) == Range(task_spec.files_write) \cup Range(task_spec.files_append)

\* C5: the boundary check reports a task as valid only if every file the task
\* modified is in files_write or files_append: each modified path outside both
\* yields an unauthorized_file violation and makes the result invalid.
C5_ValidOnlyIfModifiedAllowed ==
    verdict.op # "none" =>
        \A f \in worktree.changed \ AllowedPaths(tasks[1]) :
            /\ BoundaryViolation("unauthorized_file", f) \in verdict.result.violations
            /\ ~verdict.result.valid

\* the violations a result holds for one file
ViolationsFor(result, f) == {v \in result.violations : v.file = f}

\* C21: a modified lockfile always yields a forbidden_lockfile violation, also
\* when the task lists it in files_write; a modified lockfile outside
\* files_write and files_append yields two violations for that file,
\* unauthorized_file and forbidden_lockfile.
C21_ModifiedLockfileIsForbidden ==
    verdict.op = "validate_boundaries" =>
        \A f \in matching(worktree.changed, COMMON_LOCKFILES) :
            /\ BoundaryViolation("forbidden_lockfile", f) \in verdict.result.violations
            /\ f \notin AllowedPaths(tasks[1]) =>
                   ViolationsFor(verdict.result, f) =
                       {BoundaryViolation("unauthorized_file", f),
                        BoundaryViolation("forbidden_lockfile", f)}

\* C22: when neither diff command succeeds, the set of modified files is not
\* known and the boundary check fails the task: it never reports the task as
\* valid from the empty set a failed diff leaves.
C22_FailedDiffFailsTheCheck ==
    (verdict.op = "validate_boundaries"
        /\ worktree.diff_branch_rc # 0 /\ worktree.diff_tree_rc # 0) =>
            ~verdict.result.valid

\* C7: full verification reports environment_valid only when the task recorded
\* an environment hash and that hash equals the hash the state holds at the time
\* of the verification.
C7_EnvironmentValidOnlyOnMatch ==
    (verdict.op = "validate_task_fully" /\ verdict.environment_valid = TRUE) =>
        /\ verdict.task_env # "None"
        /\ verdict.task_env = verdict.global_env

(***************************************************************************)
(* core/risk.py: the risk score of a plan and the approval decision.       *)
(*                                                                         *)
(* A planned task carries, next to the TaskSpec fields above, the types of *)
(* its verification checks and its deps_required; a plan carries its tasks *)
(* and its contracts.  A factor is the tuple of the parts of its string.   *)
(***************************************************************************)
AuthFile == "src/auth.py"
PaymentFile == "src/payment.py"

\* re.search(pattern, path, re.IGNORECASE) on the paths of the model
re_search_ignorecase(pattern, path) ==
    <<pattern, path>> \in {<<"auth|security|crypto", AuthFile>>,
                           <<"payment|billing|stripe", PaymentFile>>,
                           <<"payment|billing", PaymentFile>>}

DEFAULT_SENSITIVE_PATTERNS ==
    << <<"auth|security|crypto", 20>>, <<"payment|billing|stripe", 25>>,
       <<"prod|production|deploy", 30>>, <<"admin|sudo|root", 15>>,
       <<"\\.env|secret|key|token", 25>>, <<"migration|schema|database", 15>> >>

auto_approve_threshold == 25

\* ApprovalSettings(auto_approve_threshold=...) with the default patterns
ApprovalSettings(threshold) ==
    [auto_approve_threshold |-> threshold,
     sensitive_patterns |-> << <<"auth|security|crypto", 20>>, <<"payment|billing", 25>>,
                               <<"prod|deploy", 30>>, <<"migration|schema", 15>> >>]

\* an OrchestrationConfig as compute_risk_score reads it
ApprovalConfig(threshold) == [present |-> TRUE, approval |-> ApprovalSettings(threshold)]

\* deps_required=None and DependencySpec(runtime=...)
NoDepsRequired == [present |-> FALSE, runtime |-> <<>>]
DependencySpec(runtime) == [present |-> TRUE, runtime |-> runtime]

\* a TaskSpec with the two fields the risk score reads in addition
PlannedTask(spec, verification, deps_required) ==
    [id |-> spec.id, depends_on |-> spec.depends_on, files_write |-> spec.files_write,
     files_append |-> spec.files_append, resources_write |-> spec.resources_write,
     patch_intents |-> spec.patch_intents, verification |-> verification,
     deps_required |-> deps_required]

ExecutionPlan(ts, contracts) == [tasks |-> ts, contracts |-> contracts]

RiskScore(value, factors, auto_approve, recommendation) ==
    [value |-> value, factors |-> factors, auto_approve |-> auto_approve,
     recommendation |-> recommendation]

RECURSIVE score_patterns(_, _, _)
\* the loop over the patterns for one path
score_patterns(path, patterns, acc) ==
    IF patterns = <<>> THEN acc
    ELSE LET p == Head(patterns)
         IN  score_patterns(path, Tail(patterns),
                 IF re_search_ignorecase(p[1], path)
                   THEN [score   |-> acc.score + p[2],
                         factors |-> Append(acc.factors, <<"sensitive_path", path, p[1]>>)]
                   ELSE acc)

RECURSIVE score_paths(_, _, _)
\* the loop over the files_write of one task
score_paths(paths, patterns, acc) ==
    IF paths = <<>> THEN acc
    ELSE score_paths(Tail(paths), patterns, score_patterns(Head(paths), patterns, acc))

RECURSIVE score_sensitive_paths(_, _, _)
\* _score_sensitive_paths
score_sensitive_paths(ts, patterns, acc) ==
    IF ts = <<>> THEN acc
    ELSE score_sensitive_paths(Tail(ts), patterns,
                               score_paths(Head(ts).files_write, patterns, acc))

RECURSIVE SumOver(_, _)
\* sum(f(t) for t in tasks), the sequence s holding the summands
SumOver(s, i) == IF i > Len(s) THEN 0 ELSE s[i] + SumOver(s, i + 1)

\* _score_scale
score_scale(ts, acc) ==
    LET num_tasks == Len(ts)
        num_files == SumOver([i \in DOMAIN ts |-> Len(ts[i].files_write)], 1)
        a1 == IF num_tasks > 5
                THEN [score   |-> acc.score + (num_tasks - 5) * 5,
                      factors |-> Append(acc.factors, <<"many_tasks", num_tasks>>)]
                ELSE acc
    IN  IF num_files > 10
          THEN [score   |-> a1.score + (num_files - 10) * 3,
                factors |-> Append(a1.factors, <<"many_files", num_files>>)]
          ELSE a1

\* _score_hot_files
score_hot_files(ts, acc) ==
    LET hot_file_count == SumOver([i \in DOMAIN ts |-> Len(ts[i].patch_intents)], 1)
    IN  IF hot_file_count > 3
          THEN [score   |-> acc.score + (hot_file_count - 3) * 5,
                factors |-> Append(acc.factors, <<"many_hot_files", hot_file_count>>)]
          ELSE acc

\* _score_dependency_changes
score_dependency_changes(ts, acc) ==
    LET new_deps == SumOver([i \in DOMAIN ts |->
                                IF ts[i].deps_required.present
                                  THEN Len(ts[i].deps_required.runtime) ELSE 0], 1)
    IN  IF new_deps > 0
          THEN [score   |-> acc.score + new_deps * 3,
                factors |-> Append(acc.factors, <<"new_dependencies", new_deps>>)]
          ELSE acc

\* _score_contracts
score_contracts(plan, acc) ==
    IF Len(plan.contracts) > 3
      THEN [score   |-> acc.score + (Len(plan.contracts) - 3) * 5,
            factors |-> Append(acc.factors, <<"many_contracts", Len(plan.contracts)>>)]
      ELSE acc

\* _score_test_coverage; int((1.0 - k/n) * 20) equals ((n - k) * 20) \div n
\* for the plan sizes of the model
score_test_coverage(ts, acc) ==
    LET tasks_with_tests ==
            Cardinality({i \in DOMAIN ts : "test" \in Range(ts[i].verification)})
    IN  IF ts = <<>> THEN acc
        ELSE IF tasks_with_tests < Len(ts)
          THEN [score   |-> acc.score + ((Len(ts) - tasks_with_tests) * 20) \div Len(ts),
                factors |-> Append(acc.factors,
                                   <<"incomplete_test_coverage", tasks_with_tests, Len(ts)>>)]
          ELSE acc

\* "auto_approve = score < threshold"
auto_approves(score, threshold) == score < threshold

\* compute_risk_score(plan, config)
compute_risk_score(plan, config) ==
    LET threshold == IF config.present THEN config.approval.auto_approve_threshold ELSE 25
        sensitive_patterns == IF config.present THEN config.approval.sensitive_patterns
                              ELSE DEFAULT_SENSITIVE_PATTERNS
        f1 == score_sensitive_paths(plan.tasks, sensitive_patterns, [score |-> 0, factors |-> <<>>])
        f2 == score_scale(plan.tasks, f1)
        f3 == score_hot_files(plan.tasks, f2)
        f4 == score_dependency_changes(plan.tasks, f3)
        f5 == score_contracts(plan, f4)
        f6 == score_test_coverage(plan.tasks, f5)
        score == f6.score
    IN  RiskScore(score, f6.factors, auto_approves(score, threshold),
                  IF score <= 25 THEN "Low risk - suitable for auto-approval"
                  ELSE IF score <= 50 THEN "Moderate risk - human review recommended"
                  ELSE "High risk - human review required")

\* what one task of a scored plan writes, verifies and installs
RiskProfiles ==
    [files_write   : {<<>>, <<AppFile>>, <<AuthFile>>, <<PaymentFile>>},
     patch_intents : {<<>>, <<AddAuthRouter, AddAuthRouter>>},
     verification  : {<<"test">>, <<"lint">>},
     deps_required : {NoDepsRequired, DependencySpec(<<"requests">>)}]

\* plans of up to PlanTasks tasks without dependencies
InitRisk ==
    /\ \E n \in 0..PlanTasks :
         \E c \in [1..n -> RiskProfiles] :
            tasks = [i \in 1..n |->
                        PlannedTask(TaskSpec(i, <<>>, c[i].files_write, <<>>, <<>>,
                                             c[i].patch_intents),
                                    c[i].verification, c[i].deps_required)]
    /\ validation = "not_run"
    /\ waves = NotRun
    /\ conflicts = NoConflicts
    /\ StoreIdle
    /\ VerifyIdle
    /\ DiskIdle
    /\ ObjIdle

\* the thresholds a configuration of the model sets
Thresholds == {20, 25}

ComputeRiskScore(contracts, config) ==
    /\ verdict = NoVerdict
    /\ verdict' = [op |-> "compute_risk_score", config |-> config,
                   risk |-> compute_risk_score(ExecutionPlan(tasks, contracts), config)]
    /\ UNCHANGED <<planVars, storeVars, worktree, diskVars, objVars>>

NextRisk ==
    \E k \in {0, 4}, config \in {NoConfig} \cup {ApprovalConfig(t) : t \in Thresholds} :
        ComputeRiskScore([i \in 1..k |-> i], config)

SpecRisk == InitRisk /\ [][NextRisk]_vars

\* the threshold compute_risk_score is asked to apply
ThresholdOf(config) ==
    IF config.present THEN config.approval.auto_approve_threshold ELSE auto_approve_threshold

\* C20: compute_risk_score sets auto_approve to true if and only if the score is
\* less than or equal to the threshold (25 by default, or the configured
\* auto_approve_threshold); a score equal to the threshold is auto-approved.
C20_AutoApproveIffAtMostThreshold ==
    verdict.op = "compute_risk_score" =>
        (verdict.risk.auto_approve <=> verdict.risk.value <= ThresholdOf(verdict.config))

(***************************************************************************)
(* cli.py: the validate command on a tasks file that parses into a plan.   *)
(* Its outcome is the exit code of the process and the lines it prints.    *)
(***************************************************************************)
\* validate(tasks_file), the file holding `plan`
validate(plan) ==
    LET dag == validate_dag(plan.tasks)
        sorted == topological_sort(plan.tasks)
        found == detect_all_conflicts(plan.tasks)
        risk == compute_risk_score(plan, NoConfig)
    IN  IF dag # "ok"
          THEN [exit_code |-> 1, printed |-> <<"schema_passed", "validation_failed">>]
          ELSE [exit_code |-> 0,
                printed |-> <<"schema_passed", "dag_passed", "execution_waves",
                              IF found # <<>> THEN "found_conflicts" ELSE "no_conflicts",
                              IF risk.auto_approve THEN "risk_auto_approve"
                              ELSE "risk_requires_review">>]

\* depends_on lists over the ids a plan of PlanTasks tasks can carry
PlanDepLists == {SortedSeq(S) : S \in SUBSET (1..PlanTasks)}

\* plans of up to PlanTasks tasks, each with one verification check
InitValidate ==
    /\ \E n \in 0..PlanTasks :
         \E d \in [1..n -> PlanDepLists], c \in [1..n -> ClaimProfiles],
            v \in [1..n -> {<<"test">>, <<"lint">>}] :
            tasks = [i \in 1..n |->
                        PlannedTask(TaskSpec(i, d[i], c[i].files_write, <<>>,
                                             c[i].resources_write, c[i].patch_intents),
                                    v[i], NoDepsRequired)]
    /\ validation = "not_run"
    /\ waves = NotRun
    /\ conflicts = NoConflicts
    /\ StoreIdle
    /\ VerifyIdle
    /\ DiskIdle
    /\ ObjIdle

Validate(contracts) ==
    /\ verdict = NoVerdict
    /\ LET outcome == validate(ExecutionPlan(tasks, contracts))
       IN  verdict' = [op |-> "validate", exit_code |-> outcome.exit_code,
                       printed |-> outcome.printed]
    /\ UNCHANGED <<planVars, storeVars, worktree, diskVars, objVars>>

NextValidate == \E k \in {0, 4} : Validate([i \in 1..k |-> i])

SpecValidate == InitValidate /\ [][NextValidate]_vars

\* C18: a plan in which two tasks write the same file or claim the same resource
\* without a dependency chain is refused: validating the plan fails (error
\* outcome, non-zero exit) whenever detect_all_conflicts reports a conflict.
C18_ConflictsFailValidation ==
    (verdict.op = "validate" /\ detect_all_conflicts(tasks) # <<>>) => verdict.exit_code # 0

(***************************************************************************)
(* core/state.py: OrchestrationStatePersistence.  The state file holds the *)
(* document of the last save; while a save is under way it is empty (after *)
(* open(..., "w")), then partly written, then complete (after the with     *)
(* block has closed it).                                                   *)
(***************************************************************************)
FileOf(data, written) == [exists |-> TRUE, data |-> data, written |-> written]

\* OrchestrationStatePersistence.load(): None, or the state of the document
load(f) ==
    IF ~f.exists THEN [kind |-> "none"]
    ELSE IF f.written # "complete" THEN [kind |-> "none"]   \* json.load raises
    ELSE [kind |-> "state", state |-> f.data]

\* OrchestrationStatePersistence.save(state), statement by statement
save_open(f, data) == FileOf(data, "empty")
save_dump(f, data) == FileOf(data, "partial")
save_close(f, data) == FileOf(data, "complete")

\* process p loads the state, sets task p to executing and saves the state
InitPersist ==
    /\ state_file = FileOf(create_initial_state(StoreIds), "complete")
    /\ procs = [p \in StoreIds |-> [pc |-> "start", local |-> NoState]]
    /\ observed = [kind |-> "not_read"]
    /\ repo = NoRepo
    /\ tasks = <<>>
    /\ validation = "not_run"
    /\ waves = NotRun
    /\ conflicts = NoConflicts
    /\ StoreIdle
    /\ VerifyIdle
    /\ ObjIdle

ProcLoad(p) ==
    /\ procs[p].pc = "start"
    /\ LET loaded == load(state_file)
       IN  procs' = IF loaded.kind = "none" THEN procs
                    ELSE [procs EXCEPT ![p] = [pc |-> "loaded", local |-> loaded.state]]
    /\ UNCHANGED <<state_file, observed, repo, planVars, storeVars, verifyVars, objVars>>

ProcUpdate(p) ==
    /\ procs[p].pc = "loaded"
    /\ procs' = [procs EXCEPT ![p] = [pc |-> "updated",
                    local |-> update_task_status(procs[p].local, p, "executing")]]
    /\ UNCHANGED <<state_file, observed, repo, planVars, storeVars, verifyVars, objVars>>

ProcSaveOpen(p) ==
    /\ procs[p].pc = "updated"
    /\ state_file' = save_open(state_file, procs[p].local)
    /\ procs' = [procs EXCEPT ![p].pc = "opened"]
    /\ UNCHANGED <<observed, repo, planVars, storeVars, verifyVars, objVars>>

ProcSaveDump(p) ==
    /\ procs[p].pc = "opened"
    /\ state_file' = save_dump(state_file, procs[p].local)
    /\ procs' = [procs EXCEPT ![p].pc = "dumping"]
    /\ UNCHANGED <<observed, repo, planVars, storeVars, verifyVars, objVars>>

ProcSaveClose(p) ==
    /\ procs[p].pc = "dumping"
    /\ state_file' = save_close(state_file, procs[p].local)
    /\ procs' = [procs EXCEPT ![p].pc = "done"]
    /\ UNCHANGED <<observed, repo, planVars, storeVars, verifyVars, objVars>>

\* a reader outside the two processes calls load()
ReaderLoad ==
    /\ observed' = load(state_file)
    /\ UNCHANGED <<state_file, procs, repo, planVars, storeVars, verifyVars, objVars>>

NextPersist ==
    \/ \E p \in StoreIds : ProcLoad(p)
    \/ \E p \in StoreIds : ProcUpdate(p)
    \/ \E p \in StoreIds : ProcSaveOpen(p)
    \/ \E p \in StoreIds : ProcSaveDump(p)
    \/ \E p \in StoreIds : ProcSaveClose(p)
    \/ ReaderLoad

SpecPersist == InitPersist /\ [][NextPersist]_vars

\* C12: a load that runs while the state file is being saved returns a state,
\* never "no state" (the file exists from the start and is never deleted).
C12_LoadNeverSeesPartialFile ==
    observed.kind # "none"

\* C13: once both processes have loaded, updated their task and saved, the
\* persisted state holds both updates.
C13_NoLostUpdate ==
    (\A p \in StoreIds : procs[p].pc = "done") =>
        /\ load(state_file).kind = "state"
        /\ \A p \in StoreIds : load(state_file).state.tasks[p].status = "executing"

(***************************************************************************)
(* worktree/manager.py: WorktreeManager on the main repository.            *)
(* worktrees and branches are the task ids that have a worktree and a      *)
(* branch task/<id>, merged the ids whose branch is part of main, merging  *)
(* the ids (none or one) of the branch whose merge is in progress, with    *)
(* its conflicts left in the index and the working tree.                   *)
(***************************************************************************)
CleanRepo ==
    [exists |-> TRUE, worktrees |-> {}, branches |-> {}, merged |-> {}, merging |-> {},
     last |-> [op |-> "none", task_id |-> 0, returncode |-> 0]]

CommandResult(op, task_id, returncode) ==
    [op |-> op, task_id |-> task_id, returncode |-> returncode]

\* create_worktree(task_id): git worktree add -b task/<id> <path> main
create_worktree(r, task_id) ==
    IF task_id \in r.branches \/ task_id \in r.worktrees
      THEN [r EXCEPT !.last = CommandResult("create_worktree", task_id, 128)]
      ELSE [r EXCEPT !.worktrees = @ \cup {task_id}, !.branches = @ \cup {task_id},
                     !.last = CommandResult("create_worktree", task_id, 0)]

\* delete_worktree(task_id): git worktree remove, then git branch -d, which
\* deletes only a branch that is merged; the result is that of the removal
delete_worktree(r, task_id) ==
    LET removed  == task_id \in r.worktrees
        branches == IF task_id \in r.merged THEN r.branches \ {task_id} ELSE r.branches
    IN  [r EXCEPT !.worktrees = @ \ {task_id}, !.branches = branches,
                  !.last = CommandResult("delete_worktree", task_id,
                                         IF removed THEN 0 ELSE 128)]

\* what git merge task/<id> can do in repository r: it merges, it stops on a
\* conflict and leaves the merge in progress, or it refuses to start
MergeOutcomes(r, task_id) ==
    IF task_id \notin r.branches \/ r.merging # {} THEN {"refused"}
    ELSE IF task_id \in r.merged THEN {"merged"}
    ELSE {"merged", "conflict", "refused"}

\* merge_worktree(task_id, target_branch="main", delete_after)
merge_worktree(r, task_id, delete_after, checkout_ok, outcome) ==
    IF ~checkout_ok THEN [r EXCEPT !.last = CommandResult("merge_worktree", task_id, 1)]
    ELSE IF outcome = "merged"
      THEN LET m == [r EXCEPT !.merged = @ \cup {task_id}]
               d == IF delete_after THEN delete_worktree(m, task_id) ELSE m
           IN  [d EXCEPT !.last = CommandResult("merge_worktree", task_id, 0)]
    ELSE IF outcome = "conflict"
      THEN [r EXCEPT !.merging = {task_id},
                     !.last = CommandResult("merge_worktree", task_id, 1)]
    ELSE [r EXCEPT !.last = CommandResult("merge_worktree", task_id, 128)]

InitMerge ==
    /\ repo = CleanRepo
    /\ state_file = NoFile
    /\ procs = <<>>
    /\ observed = [kind |-> "not_read"]
    /\ tasks = <<>>
    /\ validation = "not_run"
    /\ waves = NotRun
    /\ conflicts = NoConflicts
    /\ StoreIdle
    /\ VerifyIdle
    /\ ObjIdle

CreateWorktree(task_id) ==
    /\ repo' = create_worktree(repo, task_id)
    /\ UNCHANGED <<state_file, procs, observed, planVars, storeVars, verifyVars, objVars>>

DeleteWorktree(task_id) ==
    /\ repo' = delete_worktree(repo, task_id)
    /\ UNCHANGED <<state_file, procs, observed, planVars, storeVars, verifyVars, objVars>>

MergeWorktree(task_id, delete_after, checkout_ok, outcome) ==
    /\ outcome \in MergeOutcomes(repo, task_id)
    /\ repo' = merge_worktree(repo, task_id, delete_after, checkout_ok, outcome)
    /\ UNCHANGED <<state_file, procs, observed, planVars, storeVars, verifyVars, objVars>>

NextMerge ==
    \/ \E task_id \in StoreIds : CreateWorktree(task_id)
    \/ \E task_id \in StoreIds : DeleteWorktree(task_id)
    \/ \E task_id \in StoreIds, delete_after \in BOOLEAN, checkout_ok \in BOOLEAN,
          outcome \in {"merged", "conflict", "refused"} :
          MergeWorktree(task_id, delete_after, checkout_ok, outcome)

SpecMerge == InitMerge /\ [][NextMerge]_vars

\* C14: after merge_worktree has returned a failure, no merge is in progress in
\* the main worktree.
C14_FailedMergeIsAborted ==
    (repo.last.op = "merge_worktree" /\ repo.last.returncode # 0) => repo.merging = {}

(***************************************************************************)
(* verification/runner.py: the command runner.  A command of the model has *)
(* no placeholder, so it is resolved to itself; what the run of a command  *)
(* leaves in the result is its exit code.                                  *)
(***************************************************************************)
VerificationCheck(command, type, required) ==
    [command |-> command, type |-> type, required |-> required]

CheckResult(command, resolved_command, type, required, passed) ==
    [command |-> command, resolved_command |-> resolved_command, type |-> type,
     required |-> required, passed |-> passed]

\* run_verification_check(check, task_spec, worktree), the command exiting with returncode
run_verification_check(check, returncode) ==
    CheckResult(check.command, check.command, check.type, check.required, returncode = 0)

\* verify_task(task_id, task_spec, worktree_base); returncodes[i] is the exit code
\* the i-th command gives when it is run
verify_task(task_id, task_spec, returncodes) ==
    LET results == [i \in DOMAIN task_spec.verification |->
                       run_verification_check(task_spec.verification[i], returncodes[i])]
    IN  [task_id |-> task_id,
         all_passed |-> \A i \in DOMAIN results : results[i].required => results[i].passed,
         checks |-> results]

\* the exit codes of a command: success, failure, and -1 of run_command on a timeout
CommandExitCodes == {0, 1, -1}

\* the commands of the checks, by position
CheckCommands == <<"pytest", "ruff check .", "mypy .", "make docs">>

\* a task with one to RunnerChecks checks, each required or not
InitRunner ==
    /\ \E n \in 1..RunnerChecks :
         \E required \in [1..n -> BOOLEAN] :
            tasks = <<PlannedTask(TaskSpec(1, <<>>, <<>>, <<>>, <<>>, <<>>),
                                  [i \in 1..n |->
                                      VerificationCheck(CheckCommands[i], "custom", required[i])],
                                  NoDepsRequired)>>
    /\ validation = "not_run"
    /\ waves = NotRun
    /\ conflicts = NoConflicts
    /\ StoreIdle
    /\ VerifyIdle
    /\ DiskIdle
    /\ ObjIdle

VerifyTask(returncodes) ==
    /\ verdict = NoVerdict
    /\ DOMAIN returncodes = DOMAIN tasks[1].verification
    /\ verdict' = [op |-> "verify_task", result |-> verify_task(1, tasks[1], returncodes)]
    /\ UNCHANGED <<planVars, storeVars, worktree, diskVars, objVars>>

NextRunner ==
    \E n \in 1..RunnerChecks : \E returncodes \in [1..n -> CommandExitCodes] : VerifyTask(returncodes)

SpecRunner == InitRunner /\ [][NextRunner]_vars

\* the positions of the executed checks that are required and failed
FailedRequired(checks) == {i \in DOMAIN checks : checks[i].required /\ ~checks[i].passed}

\* C23: the runner executes the checks in their declared order and stops at the
\* first required check that fails: no later check is executed after it, and
\* the result identifies the failing command.
C23_StopsAtFirstRequiredFailure ==
    verdict.op = "verify_task" =>
        LET checks == verdict.result.checks
        IN  /\ Len(checks) <= Len(tasks[1].verification)
            /\ \A i \in DOMAIN checks : checks[i].command = tasks[1].verification[i].command
            /\ \A i \in FailedRequired(checks) : i = Len(checks)

(***************************************************************************)
(* core/contracts.py: ContractManager, the tracking of renegotiations.     *)
(* _renegotiations is a function from the names that have an entry to the  *)
(* list of their records; a record holds no timestamp.                     *)
(***************************************************************************)
max_renegotiations == 2

ContractNames == {"AuthServiceProtocol", "UserServiceProtocol"}
ContractVersions == {"abc1234", "def5678"}

\* ContractManager(max_renegotiations=limit)
ContractManager(limit) ==
    [exists |-> TRUE, max_renegotiations |-> limit, renegotiations |-> <<>>]

ContractRenegotiation(contract_name, old_version, new_version, reason) ==
    [contract_name |-> contract_name, old_version |-> old_version,
     new_version |-> new_version, reason |-> reason]

\* self._renegotiations.get(name, [])
renegotiations_of(m, name) ==
    IF name \in DOMAIN m.renegotiations THEN m.renegotiations[name] ELSE <<>>

\* a comparison that still admits a renegotiation at the limit
CanRenegotiateAtLimit(m, name) == Len(renegotiations_of(m, name)) <= m.max_renegotiations

\* can_renegotiate(name)
can_renegotiate(m, name) == Len(renegotiations_of(m, name)) < m.max_renegotiations

\* get_renegotiation_count(name)
get_renegotiation_count(m, name) == Len(renegotiations_of(m, name))

\* track_renegotiation(name, old_version, new_version, reason): the manager after
\* the call and the value returned
track_renegotiation(m, name, old_version, new_version, reason) ==
    IF ~can_renegotiate(m, name) THEN [manager |-> m, returned |-> FALSE]
    ELSE LET record == ContractRenegotiation(name, old_version, new_version, reason)
             listed == Append(renegotiations_of(m, name), record)
         IN  [manager |-> [m EXCEPT !.renegotiations =
                              [n \in DOMAIN @ \cup {name} |-> IF n = name THEN listed ELSE @[n]]],
              returned |-> TRUE]

\* a manager built with the default limit or another one, nothing tracked yet
InitContracts ==
    /\ \E limit \in 0..RenegotiationLimits : manager = ContractManager(limit)
    /\ machine = NoObject
    /\ sessions = {}
    /\ hot_file = <<>>
    /\ tasks = <<>>
    /\ validation = "not_run"
    /\ waves = NotRun
    /\ conflicts = NoConflicts
    /\ StoreIdle
    /\ VerifyIdle
    /\ DiskIdle

CanRenegotiate(name) ==
    /\ verdict' = [op |-> "can_renegotiate", name |-> name,
                   returned |-> can_renegotiate(manager, name)]
    /\ UNCHANGED <<manager, machine, sessions, hot_file, planVars, storeVars, worktree, diskVars>>

TrackRenegotiation(name, old_version, new_version) ==
    LET call == track_renegotiation(manager, name, old_version, new_version, "interface changed")
    IN  /\ manager' = call.manager
        /\ verdict' = [op |-> "track_renegotiation", name |-> name, returned |-> call.returned]
        /\ UNCHANGED <<machine, sessions, hot_file, planVars, storeVars, worktree, diskVars>>

NextContracts ==
    \E name \in ContractNames :
        \/ CanRenegotiate(name)
        \/ \E old_version \in ContractVersions :
              \E new_version \in ContractVersions \ {old_version} :
                 TrackRenegotiation(name, old_version, new_version)

SpecContracts == InitContracts /\ [][NextContracts]_vars

\* C24: after any calls of track_renegotiation the number of renegotiations
\* recorded for a contract never exceeds max_renegotiations; a call made at the
\* limit returns False and records nothing (a call below it returns True and
\* records one), and can_renegotiate is true exactly while the count is below
\* the limit.
C24_RenegotiationBounded ==
    /\ [](\A name \in ContractNames :
            get_renegotiation_count(manager, name) <= manager.max_renegotiations)
    /\ [](verdict.op = "can_renegotiate" =>
            (verdict.returned <=>
                get_renegotiation_count(manager, verdict.name) < manager.max_renegotiations))
    /\ [][verdict'.op = "track_renegotiation" =>
            LET name   == verdict'.name
                before == get_renegotiation_count(manager, name)
            IN  IF before >= manager.max_renegotiations
                  THEN ~verdict'.returned /\ manager' = manager
                  ELSE /\ verdict'.returned
                       /\ get_renegotiation_count(manager', name) = before + 1]_vars

\* a manager with the default limit refused a third renegotiation of a contract
C24_Witness ==
    /\ manager.exists
    /\ manager.max_renegotiations = max_renegotiations
    /\ verdict.op = "track_renegotiation"
    /\ ~verdict.returned
    /\ get_renegotiation_count(manager, verdict.name) = max_renegotiations

(***************************************************************************)
(* adapters/, integrator/regions.py, integrator/merge.py: intents applied  *)
(* to a hot file.                                                          *)
(*                                                                         *)
(* A file text is the list of its lines, content.split("\n"); joining the  *)
(* list gives the text back.  A string an adapter generates is the list of *)
(* the lines it spans: one line, or more when the string holds newlines.   *)
(* The lines are those of the files and intents below; strip, the marker   *)
(* test and the regular expressions are tabulated on them.                 *)
(***************************************************************************)
BlankLine == ""
FastapiImport == "from fastapi import FastAPI"
AppLine == "app = FastAPI()"
AuthImport == "from app.auth import router as auth_router"
AuthInclude == "app.include_router(auth_router, prefix=\"/auth\")"
LoginInclude == "app.include_router(auth_router, prefix=\"/login\")"
IndentedAuthInclude == "    app.include_router(auth_router, prefix=\"/auth\")"
DebugSetting == "DEBUG = True"
CounterLine == "counter = 0"
DefLine == "def handler():"
PassLine == "    pass"

\* line.strip()
strip(line) ==
    CASE line = IndentedAuthInclude -> AuthInclude
      [] line = PassLine -> "pass"
      [] OTHER -> line

\* "marker in line": a line of the model holds a marker only as its whole text
marker_in(marker, line) == line = marker

\* re.search(anchor_regex, line)
anchor_search(anchor_regex, line) ==
    <<anchor_regex, line>> \in {<<"^from fastapi import|^import fastapi", FastapiImport>>,
                                <<"app\\s*=\\s*FastAPI\\(", AppLine>>}

\* stripped.startswith("import ") or stripped.startswith("from "), or a require
is_import_statement(line) == strip(line) \in {FastapiImport, AuthImport}

AnchorPattern(anchor_regex, position, fallback) ==
    [anchor_regex |-> anchor_regex, position |-> position, fallback |-> fallback]

GeneratedCode(imports, body, config) ==
    [raised |-> FALSE, imports |-> imports, body |-> body, config |-> config]

\* generate_code raising (ValueError for an unsupported action, KeyError for a
\* missing intent key)
GenerationError == [raised |-> TRUE, imports |-> <<>>, body |-> <<>>, config |-> <<>>]

\* FastAPIPythonAdapter: its markers and anchors
FastAPIPythonAdapter ==
    [name |-> "fastapi-python",
     supported_actions |-> {"add_router", "add_middleware", "add_dependency", "add_config"},
     markers |-> [imports      |-> <<"# === AUTO:IMPORTS ===", "# === END:IMPORTS ===">>,
                  routers      |-> <<"# === AUTO:ROUTERS ===", "# === END:ROUTERS ===">>,
                  middleware   |-> <<"# === AUTO:MIDDLEWARE ===", "# === END:MIDDLEWARE ===">>,
                  dependencies |-> <<"# === AUTO:DEPENDENCIES ===", "# === END:DEPENDENCIES ===">>,
                  config       |-> <<"# === AUTO:CONFIG ===", "# === END:CONFIG ===">>],
     anchors |-> [imports      |-> AnchorPattern("^from fastapi import|^import fastapi",
                                                 "after", "end_of_imports"),
                  routers      |-> AnchorPattern("app\\s*=\\s*FastAPI\\(", "after", "serialize"),
                  middleware   |-> AnchorPattern("app\\s*=\\s*FastAPI\\(", "after", "serialize"),
                  dependencies |-> AnchorPattern("^from typing import|^import typing",
                                                 "after", "start_of_file")]]

\* GenericAdapter: two regions, no anchors
GenericAdapter ==
    [name |-> "generic",
     supported_actions |-> {"add_import", "append_to_list", "add_line"},
     markers |-> [imports |-> <<"# === AUTO:IMPORTS ===", "# === END:IMPORTS ===">>,
                  body    |-> <<"# === AUTO:BODY ===", "# === END:BODY ===">>],
     anchors |-> <<>>]

\* the intents of the model
RouterIntent(prefix) ==
    [action |-> "add_router", intent |-> [router_module |-> "app.auth", prefix |-> prefix]]
ConfigIntent == [action |-> "add_config", intent |-> [key |-> "DEBUG", value |-> TRUE]]
LineIntent(line, region) == [action |-> "add_line", intent |-> [line |-> line, region |-> region]]

\* FastAPIPythonAdapter._generate_router: the import of the module under its
\* alias and the include_router call with the prefix
generate_router(intent) ==
    IF ~({"router_module", "prefix"} \subseteq DOMAIN intent) THEN GenerationError
    ELSE GeneratedCode(<< <<AuthImport>> >>,
                       << <<IF intent.prefix = "/auth" THEN AuthInclude ELSE LoginInclude>> >>,
                       <<>>)

\* FastAPIPythonAdapter._generate_config, GenericAdapter._generate_line
generate_config(intent) ==
    IF ~({"key", "value"} \subseteq DOMAIN intent) THEN GenerationError
    ELSE GeneratedCode(<<>>, <<>>, << <<DebugSetting>> >>)

generate_line(intent) ==
    IF "line" \notin DOMAIN intent THEN GenerationError
    ELSE LET region == IF "region" \in DOMAIN intent THEN intent.region ELSE "body"
         IN  IF region = "imports" THEN GeneratedCode(<<intent.line>>, <<>>, <<>>)
             ELSE IF region = "config" THEN GeneratedCode(<<>>, <<>>, <<intent.line>>)
             ELSE GeneratedCode(<<>>, <<intent.line>>, <<>>)

\* adapter.generate_code(action, intent)
generate_code(adapter, action, intent) ==
    IF action \notin adapter.supported_actions THEN GenerationError
    ELSE IF action = "add_router" THEN generate_router(intent)
    ELSE IF action = "add_config" THEN generate_config(intent)
    ELSE IF action = "add_line" THEN generate_line(intent)
    ELSE GeneratedCode(<<>>, <<>>, <<>>)

\* lines[:k] and lines[k:], k the number of lines before the cut
Before(lines, k) == SubSeq(lines, 1, k)
From(lines, k) == SubSeq(lines, k + 1, Len(lines))

\* "marker in content"
marker_in_content(marker, lines) == \E i \in 1..Len(lines) : marker_in(marker, lines[i])

RegionNotFound == [found |-> FALSE]

\* regions.find_region: the first line holding the start marker and the first
\* later line holding the end marker; start_line and end_line count the lines
\* before each marker
find_region(lines, start_marker, end_marker) ==
    LET starts == {i \in 1..Len(lines) : marker_in(start_marker, lines[i])}
    IN  IF starts = {} THEN RegionNotFound
        ELSE LET start_idx == CHOOSE i \in starts : \A j \in starts : i <= j
                 ends == {i \in (start_idx + 1)..Len(lines) : marker_in(end_marker, lines[i])}
             IN  IF ends = {} THEN RegionNotFound
                 ELSE LET end_idx == CHOOSE i \in ends : \A j \in ends : i <= j
                      IN  [found |-> TRUE,
                           start_line |-> start_idx - 1,
                           end_line |-> end_idx - 1,
                           content_lines |-> SubSeq(lines, start_idx + 1, end_idx - 1)]

\* regions.insert_markers: the marker block goes in at the anchor, or where the
\* fallback says; AnchorNotFoundError for the fallbacks serialize and error
insert_markers(lines, start_marker, end_marker, anchor) ==
    LET matches == {i \in 1..Len(lines) : anchor_search(anchor.anchor_regex, lines[i])}
        first_match == CHOOSE i \in matches : \A j \in matches : i <= j
        import_lines == {i \in 1..Len(lines) : is_import_statement(lines[i])}
        marker_block == <<BlankLine, start_marker, end_marker, BlankLine>>
        insert_at(anchor_idx) ==
            [raised |-> FALSE,
             lines |-> Before(lines, anchor_idx) \o marker_block \o From(lines, anchor_idx)]
    IN  IF matches # {}
        THEN insert_at(IF anchor.position = "after" THEN first_match ELSE first_match - 1)
        ELSE IF anchor.fallback \in {"serialize", "error"}
        THEN [raised |-> TRUE, lines |-> lines]
        ELSE IF anchor.fallback = "start_of_file" THEN insert_at(0)
        ELSE IF anchor.fallback = "end_of_imports"
        THEN insert_at(IF import_lines = {} THEN 0
                       ELSE CHOOSE i \in import_lines : \A j \in import_lines : j <= i)
        ELSE insert_at(Len(lines))

\* regions.ensure_region_markers; regions_needed is a set, given here in the
\* order the loop visits it
RECURSIVE ensure_region_markers(_, _, _)
ensure_region_markers(lines, regions_needed, adapter) ==
    IF regions_needed = <<>> THEN lines
    ELSE LET region == Head(regions_needed)
             rest == Tail(regions_needed)
         IN  IF region \notin DOMAIN adapter.markers
             THEN ensure_region_markers(lines, rest, adapter)
             ELSE IF marker_in_content(adapter.markers[region][1], lines)
             THEN ensure_region_markers(lines, rest, adapter)
             ELSE IF region \in DOMAIN adapter.anchors
             THEN ensure_region_markers(
                      insert_markers(lines, adapter.markers[region][1],
                                     adapter.markers[region][2],
                                     adapter.anchors[region]).lines,
                      rest, adapter)
             ELSE ensure_region_markers(lines, rest, adapter)

\* the lines of a list of generated strings, as "\n".join and split leave them
RECURSIVE Flatten(_)
Flatten(new_lines) ==
    IF new_lines = <<>> THEN <<>> ELSE Head(new_lines) \o Flatten(Tail(new_lines))

\* line.strip() of a generated string is empty
strips_to_nothing(new_line) == Len(new_line) = 1 /\ strip(new_line[1]) = BlankLine

\* line.strip() in existing_set: a string over several lines equals no line
stripped_in(new_line, existing_set) ==
    Len(new_line) = 1 /\ strip(new_line[1]) \in existing_set

\* the filter of insert_into_region: each new line against the region's lines
RECURSIVE filter_new_lines(_, _)
filter_new_lines(new_lines, existing_set) ==
    IF new_lines = <<>> THEN <<>>
    ELSE IF ~strips_to_nothing(Head(new_lines)) /\ ~stripped_in(Head(new_lines), existing_set)
         THEN <<Head(new_lines)>> \o filter_new_lines(Tail(new_lines), existing_set)
         ELSE filter_new_lines(Tail(new_lines), existing_set)

\* regions.insert_into_region (deduplicate = True): RegionNotFoundError when the
\* markers are not found, else the filtered lines go in before the end marker
insert_into_region(lines, start_marker, end_marker, new_lines) ==
    LET region == find_region(lines, start_marker, end_marker)
    IN  IF ~region.found THEN [raised |-> TRUE, lines |-> lines]
        ELSE LET existing_set == {strip(region.content_lines[i]) :
                                     i \in 1..Len(region.content_lines)} \ {BlankLine}
                 kept == filter_new_lines(new_lines, existing_set)
             IN  [raised |-> FALSE,
                  lines |-> Before(lines, region.end_line) \o Flatten(kept)
                            \o From(lines, region.end_line)]

\* merge.ACTION_REGION_MAP and Integrator._get_body_region
ACTION_REGION_MAP ==
    [add_router |-> "routers", add_middleware |-> "middleware",
     add_dependency |-> "dependencies", add_config |-> "config"]

get_body_region(action) ==
    IF action \in DOMAIN ACTION_REGION_MAP THEN ACTION_REGION_MAP[action] ELSE "body"

\* the code generated for each intent of the list
generated_for(adapter, intents) ==
    [i \in 1..Len(intents) |-> generate_code(adapter, intents[i].action, intents[i].intent)]

all_imports(adapter, intents) ==
    Flatten([i \in 1..Len(intents) |-> generated_for(adapter, intents)[i].imports])

config_lines(adapter, intents) ==
    Flatten([i \in 1..Len(intents) |-> generated_for(adapter, intents)[i].config])

\* body_by_region: its keys in the order the loop creates them, and its lists
RECURSIVE body_regions(_, _, _)
body_regions(adapter, intents, k) ==
    IF k = 0 THEN <<>>
    ELSE LET keys == body_regions(adapter, intents, k - 1)
             region == get_body_region(intents[k].action)
         IN  IF generated_for(adapter, intents)[k].raised \/ region \in Range(keys)
             THEN keys ELSE Append(keys, region)

body_by_region(adapter, intents, region) ==
    Flatten([i \in 1..Len(intents) |->
                IF get_body_region(intents[i].action) = region
                THEN generated_for(adapter, intents)[i].body ELSE <<>>])

\* regions_needed of apply_intents, a set
regions_needed_for(adapter, intents) ==
    (IF all_imports(adapter, intents) # <<>> THEN {"imports"} ELSE {})
    \cup Range(body_regions(adapter, intents, Len(intents)))
    \cup (IF config_lines(adapter, intents) # <<>> /\ "config" \in DOMAIN adapter.markers
          THEN {"config"} ELSE {})

\* the orders in which a loop may visit a set
Orderings(S) == {order \in [1..Cardinality(S) -> S] : Range(order) = S}

\* one guarded insert_into_region of apply_intents: skipped when there is
\* nothing to insert or the adapter has no such region, an error recorded when
\* RegionNotFoundError is raised
guarded_insert(merged, adapter, region, new_lines) ==
    IF new_lines = <<>> \/ region \notin DOMAIN adapter.markers THEN merged
    ELSE LET inserted == insert_into_region(merged.lines, adapter.markers[region][1],
                                            adapter.markers[region][2], new_lines)
         IN  IF inserted.raised
             THEN [lines |-> merged.lines,
                   errors |-> Append(merged.errors, [failed |-> "insert", at |-> region])]
             ELSE [lines |-> inserted.lines, errors |-> merged.errors]

RECURSIVE insert_bodies(_, _, _, _)
insert_bodies(merged, adapter, intents, keys) ==
    IF keys = <<>> THEN merged
    ELSE insert_bodies(guarded_insert(merged, adapter, Head(keys),
                                      body_by_region(adapter, intents, Head(keys))),
                       adapter, intents, Tail(keys))

MergeResult(success, modified_content, applications, errors) ==
    [success |-> success, modified_content |-> modified_content,
     applications |-> applications, errors |-> errors]

\* Integrator.apply_intents on a readable file; order is the order in which
\* ensure_region_markers visits regions_needed
apply_intents(adapter, lines, intents, order) ==
    LET generated == generated_for(adapter, intents)
        applications == [i \in 1..Len(intents) |->
                            [action |-> intents[i].action, success |-> ~generated[i].raised]]
        generation_errors ==
            Flatten([i \in 1..Len(intents) |->
                        IF generated[i].raised
                        THEN <<[failed |-> "generate", at |-> intents[i].action]>> ELSE <<>>])
        marked == ensure_region_markers(lines, order, adapter)
        with_imports == guarded_insert([lines |-> marked, errors |-> generation_errors],
                                       adapter, "imports", all_imports(adapter, intents))
        with_bodies == insert_bodies(with_imports, adapter, intents,
                                     body_regions(adapter, intents, Len(intents)))
        with_config == guarded_insert(with_bodies, adapter, "config",
                                      config_lines(adapter, intents))
    IN  MergeResult(~(with_config.errors # <<>>
                      /\ ~(\A i \in 1..Len(intents) : applications[i].success)),
                    with_config.lines, applications, with_config.errors)

\* hot files: a FastAPI main module with or without its anchor lines and its
\* marked regions, ending with a newline
MarkedRegion(adapter, region, content_lines) ==
    <<adapter.markers[region][1]>> \o content_lines \o <<adapter.markers[region][2]>>

HotFiles ==
    {(IF has_import THEN <<FastapiImport>> ELSE <<>>)
     \o (IF "imports" \in marked THEN MarkedRegion(FastAPIPythonAdapter, "imports", <<>>) ELSE <<>>)
     \o (IF has_app THEN <<AppLine>> ELSE <<>>)
     \o (IF "routers" \in marked
         THEN MarkedRegion(FastAPIPythonAdapter, "routers", routed) ELSE <<>>)
     \o (IF "body" \in marked THEN MarkedRegion(GenericAdapter, "body", <<>>) ELSE <<>>)
     \o (IF "config" \in marked THEN MarkedRegion(FastAPIPythonAdapter, "config", <<>>) ELSE <<>>)
     \o <<BlankLine>> :
        has_import \in BOOLEAN, has_app \in BOOLEAN,
        marked \in {{}, {"body"}, {"imports", "routers"}, {"imports", "routers", "config"},
                    {"imports", "routers", "body", "config"}},
        routed \in {<<>>, <<IndentedAuthInclude>>}}

Adapters == {FastAPIPythonAdapter, GenericAdapter}

IntentBatches ==
    {<<RouterIntent("/auth")>>,
     <<RouterIntent("/auth"), RouterIntent("/login")>>,
     <<ConfigIntent>>,
     <<LineIntent(<<CounterLine>>, "body"), LineIntent(<<CounterLine>>, "body")>>,
     <<LineIntent(<<DefLine, PassLine>>, "body")>>,
     <<RouterIntent("/auth"), LineIntent(<<CounterLine>>, "body")>>}

InitIntegrator ==
    /\ hot_file \in HotFiles
    /\ verdict = NoVerdict
    /\ worktree = NoWorktree
    /\ manager = NoObject
    /\ machine = NoObject
    /\ sessions = {}
    /\ tasks = <<>>
    /\ validation = "not_run"
    /\ waves = NotRun
    /\ conflicts = NoConflicts
    /\ StoreIdle
    /\ DiskIdle

WritesSoFar == IF verdict = NoVerdict THEN 0 ELSE verdict.writes

\* Integrator(adapter).apply_intents(path, intents): the file is left alone
ApplyIntents(adapter, intents, order) ==
    /\ verdict' = [op |-> "apply_intents", adapter |-> adapter.name, intents |-> intents,
                   writes |-> WritesSoFar,
                   result |-> apply_intents(adapter, hot_file, intents, order)]
    /\ UNCHANGED <<hot_file, worktree, manager, machine, sessions, tasks, validation, waves,
                   conflicts, state, retries, diskVars>>

\* Integrator(adapter).apply_and_write(path, intents): the modified content is
\* written when the result reports success
ApplyAndWrite(adapter, intents, order) ==
    LET result == apply_intents(adapter, hot_file, intents, order)
    IN  /\ WritesSoFar < MaxWrites
        /\ hot_file' = IF result.success THEN result.modified_content ELSE hot_file
        /\ verdict' = [op |-> "apply_and_write", adapter |-> adapter.name, intents |-> intents,
                       writes |-> WritesSoFar + (IF result.success THEN 1 ELSE 0),
                       result |-> result]
        /\ UNCHANGED <<worktree, manager, machine, sessions, tasks, validation, waves,
                       conflicts, state, retries, diskVars>>

NextIntegrator ==
    \E adapter \in Adapters, intents \in IntentBatches :
        \E order \in Orderings(regions_needed_for(adapter, intents)) :
            \/ ApplyIntents(adapter, intents, order)
            \/ ApplyAndWrite(adapter, intents, order)

SpecIntegrator == InitIntegrator /\ [][NextIntegrator]_vars

AdapterNamed(name) == CHOOSE adapter \in Adapters : adapter.name = name

\* the lines between the markers of a region, none when the region is not found
RegionLines(adapter, region, lines) ==
    LET found == find_region(lines, adapter.markers[region][1], adapter.markers[region][2])
    IN  IF found.found THEN found.content_lines ELSE <<>>

\* how many lines of a list strip to a text
CountStripped(lines, text) == Cardinality({i \in 1..Len(lines) : strip(lines[i]) = text})

\* what an intent list generates for a region of the adapter
GeneratedInto(adapter, intents, region) ==
    (IF region = "imports" THEN all_imports(adapter, intents) ELSE <<>>)
    \o body_by_region(adapter, intents, region)
    \o (IF region = "config" THEN config_lines(adapter, intents) ELSE <<>>)

GeneratedRegions(adapter, intents) ==
    {region \in {"imports", "routers", "middleware", "dependencies", "config", "body"} :
        GeneratedInto(adapter, intents, region) # <<>>}

\* C25: applying a list of intents to the file text a first application of
\* that list produced leaves the text as it is.
C25_SecondApplicationChangesNothing ==
    [][(/\ verdict.op = "apply_and_write"
        /\ verdict.result.success
        /\ verdict'.op = "apply_and_write"
        /\ verdict'.adapter = verdict.adapter
        /\ verdict'.intents = verdict.intents)
       => hot_file' = hot_file]_vars

\* C26: after apply_intents, a one-line string it generated for a region is in
\* that region once, or as often as it was there before the call.
C26_GeneratedLineOncePerRegion ==
    verdict.op = "apply_intents" =>
        LET adapter == AdapterNamed(verdict.adapter)
        IN  \A region \in DOMAIN adapter.markers :
                LET generated == GeneratedInto(adapter, verdict.intents, region)
                    was == RegionLines(adapter, region, hot_file)
                    now == RegionLines(adapter, region, verdict.result.modified_content)
                IN  \A i \in 1..Len(generated) :
                        (Len(generated[i]) = 1 /\ ~strips_to_nothing(generated[i])) =>
                            CountStripped(now, strip(generated[i][1]))
                                <= IF CountStripped(was, strip(generated[i][1])) > 0
                                   THEN CountStripped(was, strip(generated[i][1])) ELSE 1

\* every line generated for every intent is in its region of the content
AllGeneratedPresent(adapter, intents, lines) ==
    \A region \in GeneratedRegions(adapter, intents) :
        /\ region \in DOMAIN adapter.markers
        /\ find_region(lines, adapter.markers[region][1], adapter.markers[region][2]).found
        /\ LET generated == Flatten(GeneratedInto(adapter, intents, region))
               now == RegionLines(adapter, region, lines)
           IN  \A i \in 1..Len(generated) :
                   strip(generated[i]) = BlankLine \/ CountStripped(now, strip(generated[i])) > 0

\* C27: when a region that lines were generated for is not in the result,
\* success is not reported (and so the file is not written); when success is
\* reported, every generated line is in its region of the result.
C27_SuccessMeansEveryLinePlaced ==
    (verdict.op \in {"apply_intents", "apply_and_write"} /\ verdict.result.success) =>
        AllGeneratedPresent(AdapterNamed(verdict.adapter), verdict.intents,
                            verdict.result.modified_content)

(***************************************************************************)
(* utils/tmux.py and cli.py (abort, cleanup): the tmux sessions of the     *)
(* host.  A session name is the pair of its prefix and the rest of the     *)
(* name: <<"worker-", 1>> is the session worker-<task 1>.                  *)
(***************************************************************************)
SessionName(prefix, rest) == <<prefix, rest>>

\* name.startswith("worker-")
startswith_worker(name) == name[1] = "worker-"

\* the sessions a host may hold: those of workers and verifiers of the tasks
\* 1..SessionTasks, those of a task of another orchestration, and the session
\* dev of the user (no rest)
OtherTask == SessionTasks + 1
SessionNames ==
    {SessionName(prefix, rest) : prefix \in {"worker-", "verifier-"},
                                 rest \in 1..OtherTask}
    \cup {SessionName("dev", 0)}

\* tmux.create_worker_session(task_id, worktree_path): tmux new-session fails
\* when the name is taken
create_worker_session(alive, task_id) ==
    IF SessionName("worker-", task_id) \in alive
    THEN [sessions |-> alive, returncode |-> 1]
    ELSE [sessions |-> alive \cup {SessionName("worker-", task_id)}, returncode |-> 0]

\* tmux.cleanup_worker_sessions(): every listed session whose name starts with
\* worker- is killed; cleaned holds the names killed
cleanup_worker_sessions(alive) ==
    LET cleaned == {name \in alive : startswith_worker(name)}
    IN  [sessions |-> alive \ cleaned, cleaned |-> cleaned]

\* WorktreeManager.cleanup_all_worktrees(): delete_worktree for every task
\* worktree, in the order git lists them
RECURSIVE delete_worktrees(_, _)
delete_worktrees(r, task_ids) ==
    IF task_ids = <<>> THEN r
    ELSE delete_worktrees(delete_worktree(r, Head(task_ids)), Tail(task_ids))

cleanup_all_worktrees(r) == delete_worktrees(r, SortedSeq(r.worktrees))

\* the orchestration states abort may load: some of the tasks, some of them
\* executing in a worktree
SessionStates ==
    UNION {{[create_initial_state(task_ids) EXCEPT
                !.tasks = [t \in task_ids |->
                              IF t \in executing THEN [@[t] EXCEPT !.status = "executing"]
                              ELSE @[t]]] :
               executing \in SUBSET task_ids} :
           task_ids \in SUBSET (1..SessionTasks)}

ExecutingIn(st) == {t \in DOMAIN st.tasks : st.tasks[t].status = "executing"}

InitSessions ==
    /\ sessions \in SUBSET SessionNames
    /\ \/ state_file = NoFile /\ repo = CleanRepo
       \/ \E st \in SessionStates :
              /\ state_file = FileOf(st, "complete")
              /\ repo = [CleanRepo EXCEPT !.worktrees = ExecutingIn(st),
                                          !.branches = ExecutingIn(st)]
    /\ procs = <<>>
    /\ observed = [kind |-> "not_read"]
    /\ manager = NoObject
    /\ machine = NoObject
    /\ hot_file = <<>>
    /\ tasks = <<>>
    /\ validation = "not_run"
    /\ waves = NotRun
    /\ conflicts = NoConflicts
    /\ StoreIdle
    /\ VerifyIdle

\* tmux.create_worker_session for a task of the orchestration on disk
CreateWorkerSession(task_id) ==
    /\ load(state_file).kind = "state"
    /\ task_id \in DOMAIN load(state_file).state.tasks
    /\ sessions' = create_worker_session(sessions, task_id).sessions
    /\ verdict' = [op |-> "create_worker_session", task_id |-> task_id,
                   returncode |-> create_worker_session(sessions, task_id).returncode]
    /\ UNCHANGED <<worktree, diskVars, manager, machine, hot_file, tasks, validation, waves,
                   conflicts, state, retries>>

\* cli abort: nothing without a state file or when the user declines; else
\* all worktrees and all worker sessions are cleaned up and the state file is
\* deleted
Abort(force, confirmed) ==
    LET loaded == load(state_file)
        active_tasks == IF loaded.kind = "state"
                        THEN {t \in DOMAIN loaded.state.tasks :
                                 loaded.state.tasks[t].status
                                     \in {"executing", "verifying", "merging"}}
                        ELSE {}
        cleaned == cleanup_worker_sessions(sessions)
    IN  /\ IF loaded.kind # "state"
           THEN /\ verdict' = [op |-> "abort", outcome |-> "no_orchestration", cleaned |-> {}]
                /\ UNCHANGED <<sessions, state_file, repo>>
           ELSE IF active_tasks # {} /\ ~force /\ ~confirmed
           THEN /\ verdict' = [op |-> "abort", outcome |-> "declined", cleaned |-> {}]
                /\ UNCHANGED <<sessions, state_file, repo>>
           ELSE /\ repo' = cleanup_all_worktrees(repo)
                /\ sessions' = cleaned.sessions
                /\ state_file' = NoFile
                /\ verdict' = [op |-> "abort", outcome |-> "aborted",
                               cleaned |-> cleaned.cleaned]
        /\ UNCHANGED <<worktree, procs, observed, manager, machine, hot_file, tasks,
                       validation, waves, conflicts, state, retries>>

\* cli cleanup: git worktree prune (every worktree of the model has its
\* directory, so none is stale), then cleanup_worker_sessions
Cleanup ==
    /\ sessions' = cleanup_worker_sessions(sessions).sessions
    /\ verdict' = [op |-> "cleanup", outcome |-> "cleaned",
                   cleaned |-> cleanup_worker_sessions(sessions).cleaned]
    /\ UNCHANGED <<state_file, repo, worktree, procs, observed, manager, machine, hot_file,
                   tasks, validation, waves, conflicts, state, retries>>

NextSessions ==
    \/ \E task_id \in 1..SessionTasks : CreateWorkerSession(task_id)
    \/ \E force \in BOOLEAN, confirmed \in BOOLEAN : Abort(force, confirmed)
    \/ Cleanup

SpecSessions == InitSessions /\ [][NextSessions]_vars

\* the task ids of the orchestration state on disk
LoadedTasks ==
    IF load(state_file).kind = "state" THEN DOMAIN load(state_file).state.tasks ELSE {}

\* C28: while an orchestration state is on disk, a worker-* or verifier-*
\* session whose task is not a task of that state survives every abort and
\* every cleanup.
C28_ForeignSessionsSurvive ==
    [][load(state_file).kind = "state" =>
           \A name \in sessions :
               (name[1] \in {"worker-", "verifier-"} /\ name[2] \notin LoadedTasks)
                   => name \in sessions']_vars

(***************************************************************************)
(* core/state.py: TaskStateMachine.  A history entry is the state entered; *)
(* the time stamp that goes with it is left out.                           *)
(***************************************************************************)
TaskStateMachine(task_id, initial_state) ==
    [exists |-> TRUE, task_id |-> task_id, _state |-> initial_state,
     _history |-> <<initial_state>>]

\* VALID_TRANSITIONS.get(self._state, set()) holds any state but the current one
CanMoveAnywhere(m, new_state) == new_state # m._state

\* TaskStateMachine.can_transition_to(new_state)
can_transition_to(m, new_state) ==
    new_state \in (IF m._state \in DOMAIN VALID_TRANSITIONS
                   THEN VALID_TRANSITIONS[m._state] ELSE {})

\* TaskStateMachine.transition_to(new_state): StateTransitionError, or the new
\* state entered and appended to the history
transition_to(m, new_state) ==
    IF ~can_transition_to(m, new_state) THEN [machine |-> m, raised |-> TRUE]
    ELSE [machine |-> [m EXCEPT !._state = new_state,
                                !._history = Append(@, new_state)],
          raised |-> FALSE]

InitMachine ==
    /\ \E initial_state \in TaskStates : machine = TaskStateMachine(1, initial_state)
    /\ manager = NoObject
    /\ sessions = {}
    /\ hot_file = <<>>
    /\ tasks = <<>>
    /\ validation = "not_run"
    /\ waves = NotRun
    /\ conflicts = NoConflicts
    /\ StoreIdle
    /\ VerifyIdle
    /\ DiskIdle

CanTransitionTo(new_state) ==
    /\ verdict' = [op |-> "can_transition_to", new_state |-> new_state,
                   returned |-> can_transition_to(machine, new_state)]
    /\ UNCHANGED <<machine, worktree, manager, sessions, hot_file, tasks, validation, waves,
                   conflicts, state, retries, diskVars>>

\* TaskStateMachine.is_terminal()
is_terminal(m) == m._state \in {"merged", "failed"}

IsTerminal ==
    /\ verdict' = [op |-> "is_terminal", new_state |-> machine._state,
                   returned |-> is_terminal(machine)]
    /\ UNCHANGED <<machine, worktree, manager, sessions, hot_file, tasks, validation, waves,
                   conflicts, state, retries, diskVars>>

TransitionTo(new_state) ==
    /\ Len(machine._history) < MaxHistory
    /\ machine' = transition_to(machine, new_state).machine
    /\ verdict' = [op |-> "transition_to", new_state |-> new_state,
                   raised |-> transition_to(machine, new_state).raised]
    /\ UNCHANGED <<worktree, manager, sessions, hot_file, tasks, validation, waves,
                   conflicts, state, retries, diskVars>>

NextMachine ==
    \/ \E new_state \in TaskStates : CanTransitionTo(new_state)
    \/ \E new_state \in TaskStates : TransitionTo(new_state)
    \/ IsTerminal

SpecMachine == InitMachine /\ [][NextMachine]_vars

\* C29: the state machine accepts the transition executing -> pending, so a
\* task found executing can be returned to pending.
C29_ExecutingCanReturnToPending ==
    (/\ verdict.op = "can_transition_to"
     /\ machine._state = "executing"
     /\ verdict.new_state = "pending") => verdict.returned

\* C30: transition_to(new) enters new and appends it to the history exactly
\* when new is an allowed successor of the current state; otherwise it raises
\* StateTransitionError and leaves state and history as they were.  In every
\* history each state is an allowed successor of the one before it, and
\* nothing follows merged.
C30_OnlyAllowedTransitions ==
    /\ [][verdict'.op = "transition_to" =>
              IF verdict'.new_state \in VALID_TRANSITIONS[machine._state]
              THEN /\ ~verdict'.raised
                   /\ machine'._state = verdict'.new_state
                   /\ machine'._history = Append(machine._history, verdict'.new_state)
              ELSE /\ verdict'.raised
                   /\ machine' = machine]_vars
    /\ [](\A i \in 1..(Len(machine._history) - 1) :
              /\ machine._history[i + 1] \in VALID_TRANSITIONS[machine._history[i]]
              /\ machine._history[i] # "merged")

C30_Witness ==
    /\ verdict.op = "transition_to"
    /\ verdict.raised
    /\ machine._state = "merged"
    /\ Len(machine._history) >= 3

\* C37: a state for which is_terminal() is true has no allowed outgoing
\* transition.
C37_TerminalMeansFinal ==
    (verdict.op = "is_terminal" /\ verdict.returned) =>
        \A new_state \in TaskStates : ~can_transition_to(machine, new_state)

(***************************************************************************)
(* core/state.py: get_ready_tasks and get_blocked_tasks, and a scheduler   *)
(* that starts the tasks get_ready_tasks returns and moves each task with  *)
(* update_task_status.                                                     *)
(***************************************************************************)
\* state.tasks.get(dep_id, TaskStatus(task_id=dep_id)).status
status_of(st, task_id) == TaskOrDefault(st, task_id).status

\* every pending task is ready, whatever it depends on
AllPendingReady(st, task_deps) ==
    SortedSeq({t \in DOMAIN st.tasks : st.tasks[t].status = "pending"})

\* only a pending task without dependencies is ready
OnlyRootsReady(st, task_deps) ==
    SortedSeq({t \in DOMAIN st.tasks :
                  st.tasks[t].status = "pending" /\ DictGet(task_deps, t, <<>>) = <<>>})

\* get_ready_tasks(state, task_deps): in the order of state.tasks
get_ready_tasks(st, task_deps) ==
    SortedSeq({t \in DOMAIN st.tasks :
                  /\ st.tasks[t].status = "pending"
                  /\ \A dep_id \in Range(DictGet(task_deps, t, <<>>)) :
                         status_of(st, dep_id) = "merged"})

\* get_blocked_tasks(state, task_deps): in the order of state.tasks
get_blocked_tasks(st, task_deps) ==
    SortedSeq({t \in DOMAIN st.tasks :
                  \/ st.tasks[t].status = "blocked"
                  \/ /\ st.tasks[t].status = "pending"
                     /\ \E dep_id \in Range(DictGet(task_deps, t, <<>>)) :
                            status_of(st, dep_id) = "failed"})

\* task_deps of a plan: task id -> depends_on
task_deps_of(ts) == [id \in TaskIdsOf(ts) |-> TaskById(ts, id).depends_on]

\* the step after s on the way of a task that does not fail
NextOnTheWay ==
    [executing |-> "verifying", verifying |-> "verified", verified |-> "merging",
     merging |-> "merged"]

\* acyclic plans of up to SchedTasks tasks with ids 1..n whose depends_on lists
\* name tasks of the plan, each once
SchedPlans ==
    UNION {{ts \in {[i \in 1..n |-> TaskSpec(i, SortedSeq(d[i]), <<>>, <<>>, <<>>, <<>>)] :
                       d \in [1..n -> SUBSET (1..n)]} : validate_dag(ts) = "ok"} :
           n \in 1..SchedTasks}

\* the state of an orchestration of some of the plan's tasks, all pending
InitSchedule ==
    /\ tasks \in SchedPlans
    /\ \E task_ids \in SUBSET TaskIdsOf(tasks) : state = create_initial_state(task_ids)
    /\ retries = [t \in TaskIdsOf(tasks) |-> 0]
    /\ verdict = NoVerdict
    /\ worktree = NoWorktree
    /\ validation = "not_run"
    /\ waves = NotRun
    /\ conflicts = NoConflicts
    /\ DiskIdle
    /\ ObjIdle

GetReadyTasks ==
    /\ verdict' = [op |-> "get_ready_tasks",
                   result |-> get_ready_tasks(state, task_deps_of(tasks))]
    /\ UNCHANGED <<state, retries, planVars, worktree, diskVars, objVars>>

GetBlockedTasks ==
    /\ verdict' = [op |-> "get_blocked_tasks",
                   result |-> get_blocked_tasks(state, task_deps_of(tasks))]
    /\ UNCHANGED <<state, retries, planVars, worktree, diskVars, objVars>>

\* update_task_status(state, task_id, new_status) by the scheduler
MoveTask(task_id, new_status) ==
    /\ state' = update_task_status(state, task_id, new_status)
    /\ verdict' = [op |-> "update_task_status", result |-> <<task_id>>]
    /\ UNCHANGED <<planVars, worktree, diskVars, objVars>>

\* a task get_ready_tasks returned is started
StartTask(task_id) ==
    /\ task_id \in Range(get_ready_tasks(state, task_deps_of(tasks)))
    /\ MoveTask(task_id, "executing")
    /\ UNCHANGED retries

\* a started task takes its next step towards merged
AdvanceTask(task_id) ==
    /\ task_id \in DOMAIN state.tasks
    /\ state.tasks[task_id].status \in DOMAIN NextOnTheWay
    /\ MoveTask(task_id, NextOnTheWay[state.tasks[task_id].status])
    /\ UNCHANGED retries

\* execution, verification or merge of a task fails
FailTask(task_id) ==
    /\ task_id \in DOMAIN state.tasks
    /\ state.tasks[task_id].status \in {"executing", "verifying", "merging"}
    /\ MoveTask(task_id, "failed")
    /\ UNCHANGED retries

\* a failed task is sent back to pending
RetryTask(task_id) ==
    /\ task_id \in DOMAIN state.tasks
    /\ state.tasks[task_id].status = "failed"
    /\ retries[task_id] < SchedRetries
    /\ MoveTask(task_id, "pending")
    /\ retries' = [retries EXCEPT ![task_id] = @ + 1]

\* a pending task get_blocked_tasks returned is marked blocked, and a blocked
\* task whose dependencies no longer fail is released
BlockTask(task_id) ==
    /\ task_id \in Range(get_blocked_tasks(state, task_deps_of(tasks)))
    /\ state.tasks[task_id].status = "pending"
    /\ MoveTask(task_id, "blocked")
    /\ UNCHANGED retries

UnblockTask(task_id) ==
    /\ task_id \in DOMAIN state.tasks
    /\ state.tasks[task_id].status = "blocked"
    /\ \A dep_id \in Range(DictGet(task_deps_of(tasks), task_id, <<>>)) :
           status_of(state, dep_id) # "failed"
    /\ MoveTask(task_id, "pending")
    /\ UNCHANGED retries

NextSchedule ==
    \/ GetReadyTasks
    \/ GetBlockedTasks
    \/ \E task_id \in 1..SchedTasks : StartTask(task_id)
    \/ \E task_id \in 1..SchedTasks : AdvanceTask(task_id)
    \/ \E task_id \in 1..SchedTasks : FailTask(task_id)
    \/ \E task_id \in 1..SchedTasks : RetryTask(task_id)
    \/ \E task_id \in 1..SchedTasks : BlockTask(task_id)
    \/ \E task_id \in 1..SchedTasks : UnblockTask(task_id)

SpecSchedule == InitSchedule /\ [][NextSchedule]_vars

\* the dependencies a plan declares for a task
PlanDeps(t) == Range(TaskById(tasks, t).depends_on)

\* the task is in the state and merged
IsMerged(t) == t \in DOMAIN state.tasks /\ state.tasks[t].status = "merged"

\* C31: get_ready_tasks returns exactly the pending tasks whose every
\* dependency is merged (one missing from the state is not merged); no task
\* enters executing before all its dependencies are merged; and a merged task
\* has only merged dependencies, so the merge of A precedes that of B for A <- B.
C31_ReadyMeansDependenciesMerged ==
    /\ [](verdict.op = "get_ready_tasks" =>
              Range(verdict.result) =
                  {t \in DOMAIN state.tasks :
                      /\ state.tasks[t].status = "pending"
                      /\ \A dep_id \in PlanDeps(t) : IsMerged(dep_id)})
    /\ [][\A t \in DOMAIN state.tasks :
              (state'.tasks[t].status = "executing" /\ state.tasks[t].status # "executing")
                  => \A dep_id \in PlanDeps(t) : IsMerged(dep_id)]_vars
    /\ [](\A t \in DOMAIN state.tasks :
              state.tasks[t].status = "merged" => \A dep_id \in PlanDeps(t) : IsMerged(dep_id))

C31_Witness ==
    /\ verdict.op = "get_ready_tasks"
    /\ verdict.result # <<>>
    /\ \E t \in DOMAIN state.tasks :
           /\ PlanDeps(t) # {}
           /\ state.tasks[t].status = "merged"
    /\ \E t \in Range(verdict.result) : PlanDeps(t) # {}

\* the pending tasks that depend, directly or through other tasks, on a task
\* that failed
RECURSIVE DependsOnFailed(_, _)
DependsOnFailed(t, depth) ==
    /\ depth > 0
    /\ \E dep_id \in PlanDeps(t) :
           \/ status_of(state, dep_id) = "failed"
           \/ dep_id \in TaskIdsOf(tasks) /\ DependsOnFailed(dep_id, depth - 1)

\* C32: get_blocked_tasks reports every pending task that depends on a failed
\* task directly or transitively, reports no other pending task, and no
\* pending task is both ready and blocked.
C32_FailureCascadesThroughDependsOn ==
    verdict.op = "get_blocked_tasks" =>
        /\ \A t \in DOMAIN state.tasks :
               state.tasks[t].status = "pending" =>
                   (t \in Range(verdict.result) <=> DependsOnFailed(t, Len(tasks)))
        /\ \A t \in Range(verdict.result) :
               t \notin Range(get_ready_tasks(state, task_deps_of(tasks)))

\* the scheduler on a plan in which no task fails: every task of the plan is
\* in the state, ready tasks are started and started tasks advance
InitProgress ==
    /\ tasks \in SchedPlans
    /\ state = create_initial_state(TaskIdsOf(tasks))
    /\ retries = [t \in TaskIdsOf(tasks) |-> 0]
    /\ verdict = NoVerdict
    /\ worktree = NoWorktree
    /\ validation = "not_run"
    /\ waves = NotRun
    /\ conflicts = NoConflicts
    /\ DiskIdle
    /\ ObjIdle

NextProgress ==
    \/ \E task_id \in 1..SchedTasks : StartTask(task_id)
    \/ \E task_id \in 1..SchedTasks : AdvanceTask(task_id)

\* the scheduler keeps starting and advancing tasks while it can
SpecProgress == InitProgress /\ [][NextProgress]_vars /\ WF_vars(NextProgress)

AllMerged == \A t \in TaskIdsOf(tasks) : IsMerged(t)

is_ready_to_verify(task) == task.status = "executing" /\ task.completed_at # "None"

\* C36: a task that has just entered executing, its attempt not finished, is
\* not ready to verify, also when an earlier attempt of it failed.
C36_ReadyToVerifyOnlyAfterThisAttempt ==
    [][\A t \in DOMAIN state.tasks :
           (state'.tasks[t].status = "executing" /\ state.tasks[t].status # "executing")
               => ~is_ready_to_verify(state'.tasks[t])]_vars

(***************************************************************************)
(* utils/tmux.py: run_in_session and wait_for_prompt.  Time is counted in  *)
(* ticks: time.time() is the field now of the calling process, a sleep of  *)
(* poll_interval takes that many ticks, a capture_output takes up to       *)
(* CaptureTicks (run_command has its own timeout).  The field pane says    *)
(* whether the last lines of the session match the prompt pattern.         *)
(***************************************************************************)
WaitSession == SessionName("worker-", 1)

\* the loop test of wait_for_prompt never fails
LoopForever(now, start, timeout) == TRUE

\* "while time.time() - start < timeout"
loop_continues(now, start, timeout) == now - start < timeout

\* what run_in_session returns, with what its wait_for_prompt returned
SessionRun(success, output, waited, prompt_seen) ==
    [op |-> "run_in_session", success |-> success, output |-> output,
     waited |-> waited, prompt_seen |-> prompt_seen]

InitWait ==
    /\ \E timeout \in 0..MaxTimeout, poll_interval \in 1..MaxPoll, pane \in BOOLEAN,
          wait_for_completion \in BOOLEAN :
           procs = <<[pc |-> "send_keys", now |-> 0, start |-> 0, timeout |-> timeout,
                      poll_interval |-> poll_interval, pane |-> pane,
                      wait_for_completion |-> wait_for_completion]>>
    /\ sessions \in {{}, {WaitSession}}
    /\ verdict = NoVerdict
    /\ worktree = NoWorktree
    /\ state_file = NoFile
    /\ observed = [kind |-> "not_read"]
    /\ repo = NoRepo
    /\ manager = NoObject
    /\ machine = NoObject
    /\ hot_file = <<>>
    /\ tasks = <<>>
    /\ validation = "not_run"
    /\ waves = NotRun
    /\ conflicts = NoConflicts
    /\ StoreIdle

WaitIdle ==
    UNCHANGED <<sessions, worktree, state_file, observed, repo, manager, machine, hot_file,
                tasks, validation, waves, conflicts, state, retries>>

\* run_in_session: send_keys, and the returns before the wait
SendKeys ==
    /\ procs[1].pc = "send_keys"
    /\ IF WaitSession \notin sessions
       THEN /\ procs' = [procs EXCEPT ![1].pc = "done"]
            /\ verdict' = SessionRun(FALSE, "Failed to send command", FALSE, FALSE)
       ELSE IF ~procs[1].wait_for_completion
       THEN /\ procs' = [procs EXCEPT ![1].pc = "done"]
            /\ verdict' = SessionRun(TRUE, "", FALSE, FALSE)
       ELSE /\ procs' = [procs EXCEPT ![1].pc = "test", ![1].start = procs[1].now]
            /\ UNCHANGED verdict
    /\ WaitIdle

\* wait_for_prompt: the loop test; when it fails wait_for_prompt returns False
\* and run_in_session returns (False, "Command timed out")
WaitTest ==
    /\ procs[1].pc = "test"
    /\ IF loop_continues(procs[1].now, procs[1].start, procs[1].timeout)
       THEN /\ procs' = [procs EXCEPT ![1].pc = "capture"]
            /\ UNCHANGED verdict
       ELSE /\ procs' = [procs EXCEPT ![1].pc = "done"]
            /\ verdict' = SessionRun(FALSE, "Command timed out", TRUE, FALSE)
    /\ WaitIdle

\* wait_for_prompt: capture_output and re.search; on a match it returns True
\* and run_in_session returns (True, output)
WaitCapture(ticks) ==
    /\ procs[1].pc = "capture"
    /\ procs[1].now + ticks <= MaxClock
    /\ IF procs[1].pane
       THEN /\ procs' = [procs EXCEPT ![1].pc = "done", ![1].now = @ + ticks]
            /\ verdict' = SessionRun(TRUE, "output", TRUE, TRUE)
       ELSE /\ procs' = [procs EXCEPT ![1].pc = "sleep", ![1].now = @ + ticks]
            /\ UNCHANGED verdict
    /\ WaitIdle

\* wait_for_prompt: time.sleep(poll_interval)
WaitSleep ==
    /\ procs[1].pc = "sleep"
    /\ procs[1].now + procs[1].poll_interval <= MaxClock
    /\ procs' = [procs EXCEPT ![1].pc = "test", ![1].now = @ + procs[1].poll_interval]
    /\ UNCHANGED verdict
    /\ WaitIdle

\* the session shows the prompt, or output scrolls it away
PaneChanges ==
    /\ procs[1].pc # "done"
    /\ procs' = [procs EXCEPT ![1].pane = ~@]
    /\ UNCHANGED verdict
    /\ WaitIdle

RunInSession ==
    \/ SendKeys
    \/ WaitTest
    \/ \E ticks \in 0..CaptureTicks : WaitCapture(ticks)
    \/ WaitSleep

NextWait == RunInSession \/ PaneChanges

\* the calling process keeps running
SpecWait == InitWait /\ [][NextWait]_vars /\ WF_vars(RunInSession)

\* C38: a capture that shows the prompt makes wait_for_prompt return True at
\* once; it returns False only when its timeout has elapsed, and then
\* run_in_session reports the command as timed out; the call always returns.
C38_WaitHasDeadline ==
    /\ [][procs[1].pc = "capture" /\ procs'[1].pc # "capture" =>
              IF procs[1].pane
              THEN procs'[1].pc = "done" /\ verdict'.prompt_seen /\ verdict'.success
              ELSE procs'[1].pc = "sleep"]_vars
    /\ []((verdict.op = "run_in_session" /\ verdict.waited /\ ~verdict.prompt_seen) =>
              /\ procs[1].now - procs[1].start >= procs[1].timeout
              /\ ~verdict.success
              /\ verdict.output = "Command timed out")
    /\ [](procs[1].pc = "sleep" =>
              procs[1].now - procs[1].start < procs[1].timeout + CaptureTicks)
    /\ <>(procs[1].pc = "done")

C38_Witness ==
    /\ verdict.op = "run_in_session"
    /\ verdict.output = "Command timed out"
    /\ procs[1].timeout >= 2
    /\ procs[1].now - procs[1].start >= procs[1].timeout

====
